---------------------------- MODULE Spec2Model ----------------------------
(***************************************************************************)
(* A model of pycountries: the enumerated reference tables (Country,       *)
(* Currency, Language, MacroLanguage, Phone), the lookup performed by each *)
(* collection's metaclass __call__, and Currency.clean_amount.             *)
(*                                                                         *)
(* Python values are modelled as tagged records [t |-> type, v |-> value]. *)
(* A str is a sequence of one-character strings, so that int(), lower(),   *)
(* startswith() and split() are computed and not assumed.                  *)
(***************************************************************************)
EXTENDS Integers, Sequences, FiniteSets, TLC

VARIABLES
  call,     \* the last operation invoked, with its arguments
  result,   \* what that operation returned or raised
  cached,   \* the memo of _get_currencies_by_digits: digits -> the list
  writes    \* the assignments made to fields of members since import

vars == <<call, result, cached, writes>>

---------------------------------------------------------------------------
(* Python values *)

None == [t |-> "NoneType", v |-> 0]

Str(s) == [t |-> "str", v |-> s]

IntV(n) == [t |-> "int", v |-> n]

BoolV(b) == [t |-> "bool", v |-> b]

\* Python's ==  between values of the modelled types: a str never equals an
\* int, and None equals only None.
PyEq(a, b) == a.t = b.t /\ a.v = b.v

\* Python's  x in [ ... ]  on a list: equality with some element.
PyIn(x, list) == \E i \in 1..Len(list) : PyEq(x, list[i])

\* An operation's outcome: a returned value or a raised exception.  msg
\* tells the raise statements of one exception class apart.
Return(v) == [kind |-> "return", val |-> v]

Raise(e, m) == [kind |-> "raise", exc |-> e, msg |-> m]

Min(S) == CHOOSE x \in S : \A y \in S : x <= y

DigitChars == <<"0", "1", "2", "3", "4", "5", "6", "7", "8", "9">>

UpperChars ==
  <<"A", "B", "C", "D", "E", "F", "G", "H", "I", "J", "K", "L", "M",
    "N", "O", "P", "Q", "R", "S", "T", "U", "V", "W", "X", "Y", "Z">>

LowerChars ==
  <<"a", "b", "c", "d", "e", "f", "g", "h", "i", "j", "k", "l", "m",
    "n", "o", "p", "q", "r", "s", "t", "u", "v", "w", "x", "y", "z">>

IsDigit(c) == \E i \in 1..Len(DigitChars) : DigitChars[i] = c

DigitVal(c) == (CHOOSE i \in 1..Len(DigitChars) : DigitChars[i] = c) - 1

\* str.lower() on one character, then on a string.
LowerChar(c) ==
  IF \E i \in 1..Len(UpperChars) : UpperChars[i] = c
    THEN LowerChars[CHOOSE i \in 1..Len(UpperChars) : UpperChars[i] = c]
    ELSE c

lower(s) == [i \in 1..Len(s) |-> LowerChar(s[i])]

\* str.upper(), used only to build query strings.
UpperChar(c) ==
  IF \E i \in 1..Len(LowerChars) : LowerChars[i] = c
    THEN UpperChars[CHOOSE i \in 1..Len(LowerChars) : LowerChars[i] = c]
    ELSE c

upper(s) == [i \in 1..Len(s) |-> UpperChar(s[i])]

\* str.strip() of the blanks int() ignores around a literal.
RECURSIVE StripLeft(_)
StripLeft(s) == IF s # <<>> /\ Head(s) = " " THEN StripLeft(Tail(s)) ELSE s

RECURSIVE StripRight(_)
StripRight(s) ==
  IF s # <<>> /\ s[Len(s)] = " " THEN StripRight(SubSeq(s, 1, Len(s) - 1)) ELSE s

\* The digits of an integer literal whose sign is removed: decimal digits,
\* with single underscores allowed between digits.
IsDigitBody(s) ==
  /\ s # <<>>
  /\ IsDigit(s[1])
  /\ IsDigit(s[Len(s)])
  /\ \A i \in 1..Len(s) : IsDigit(s[i]) \/ s[i] = "_"
  /\ \A i \in 1..(Len(s) - 1) : ~(s[i] = "_" /\ s[i + 1] = "_")

RECURSIVE DigitsValue(_, _)
DigitsValue(s, acc) ==
  IF s = <<>> THEN acc
  ELSE IF Head(s) = "_" THEN DigitsValue(Tail(s), acc)
  ELSE DigitsValue(Tail(s), 10 * acc + DigitVal(Head(s)))

\* Python's int(s) for a str s, base 10: Return(n) or ValueError.
PyInt(s) ==
  LET t == StripRight(StripLeft(s))
      signed == t # <<>> /\ Head(t) \in {"+", "-"}
      body == IF signed THEN Tail(t) ELSE t
  IN IF ~IsDigitBody(body) THEN Raise("ValueError", "invalid literal for int()")
     ELSE IF signed /\ Head(t) = "-" THEN Return(0 - DigitsValue(body, 0))
     ELSE Return(DigitsValue(body, 0))

---------------------------------------------------------------------------
(* The declared tables: one record per assignment in the Enum class body, *)
(* in declaration order.  key is the member name.  A unit's display names *)
(* (name, official_name) take no part in any lookup and are left out.     *)

DefaultDigits == 2

CountryDecls ==
  << [key |-> "AW", alpha_2 |-> Str(<<"A","W">>), alpha_3 |-> Str(<<"A","B","W">>), numeric |-> Str(<<"5","3","3">>)],
     [key |-> "AF", alpha_2 |-> Str(<<"A","F">>), alpha_3 |-> Str(<<"A","F","G">>), numeric |-> Str(<<"0","0","4">>)],
     [key |-> "AO", alpha_2 |-> Str(<<"A","O">>), alpha_3 |-> Str(<<"A","G","O">>), numeric |-> Str(<<"0","2","4">>)],
     [key |-> "AI", alpha_2 |-> Str(<<"A","I">>), alpha_3 |-> Str(<<"A","I","A">>), numeric |-> Str(<<"6","6","0">>)],
     [key |-> "AX", alpha_2 |-> Str(<<"A","X">>), alpha_3 |-> Str(<<"A","L","A">>), numeric |-> Str(<<"2","4","8">>)],
     [key |-> "AL", alpha_2 |-> Str(<<"A","L">>), alpha_3 |-> Str(<<"A","L","B">>), numeric |-> Str(<<"0","0","8">>)],
     [key |-> "AD", alpha_2 |-> Str(<<"A","D">>), alpha_3 |-> Str(<<"A","N","D">>), numeric |-> Str(<<"0","2","0">>)],
     [key |-> "AE", alpha_2 |-> Str(<<"A","E">>), alpha_3 |-> Str(<<"A","R","E">>), numeric |-> Str(<<"7","8","4">>)],
     [key |-> "AR", alpha_2 |-> Str(<<"A","R">>), alpha_3 |-> Str(<<"A","R","G">>), numeric |-> Str(<<"0","3","2">>)],
     [key |-> "AM", alpha_2 |-> Str(<<"A","M">>), alpha_3 |-> Str(<<"A","R","M">>), numeric |-> Str(<<"0","5","1">>)],
     [key |-> "AS", alpha_2 |-> Str(<<"A","S">>), alpha_3 |-> Str(<<"A","S","M">>), numeric |-> Str(<<"0","1","6">>)],
     [key |-> "AQ", alpha_2 |-> Str(<<"A","Q">>), alpha_3 |-> Str(<<"A","T","A">>), numeric |-> Str(<<"0","1","0">>)],
     [key |-> "TF", alpha_2 |-> Str(<<"T","F">>), alpha_3 |-> Str(<<"A","T","F">>), numeric |-> Str(<<"2","6","0">>)],
     [key |-> "AG", alpha_2 |-> Str(<<"A","G">>), alpha_3 |-> Str(<<"A","T","G">>), numeric |-> Str(<<"0","2","8">>)],
     [key |-> "AU", alpha_2 |-> Str(<<"A","U">>), alpha_3 |-> Str(<<"A","U","S">>), numeric |-> Str(<<"0","3","6">>)],
     [key |-> "AT", alpha_2 |-> Str(<<"A","T">>), alpha_3 |-> Str(<<"A","U","T">>), numeric |-> Str(<<"0","4","0">>)],
     [key |-> "AZ", alpha_2 |-> Str(<<"A","Z">>), alpha_3 |-> Str(<<"A","Z","E">>), numeric |-> Str(<<"0","3","1">>)],
     [key |-> "BI", alpha_2 |-> Str(<<"B","I">>), alpha_3 |-> Str(<<"B","D","I">>), numeric |-> Str(<<"1","0","8">>)],
     [key |-> "BE", alpha_2 |-> Str(<<"B","E">>), alpha_3 |-> Str(<<"B","E","L">>), numeric |-> Str(<<"0","5","6">>)],
     [key |-> "BJ", alpha_2 |-> Str(<<"B","J">>), alpha_3 |-> Str(<<"B","E","N">>), numeric |-> Str(<<"2","0","4">>)],
     [key |-> "BQ", alpha_2 |-> Str(<<"B","Q">>), alpha_3 |-> Str(<<"B","E","S">>), numeric |-> Str(<<"5","3","5">>)],
     [key |-> "BF", alpha_2 |-> Str(<<"B","F">>), alpha_3 |-> Str(<<"B","F","A">>), numeric |-> Str(<<"8","5","4">>)],
     [key |-> "BD", alpha_2 |-> Str(<<"B","D">>), alpha_3 |-> Str(<<"B","G","D">>), numeric |-> Str(<<"0","5","0">>)],
     [key |-> "BG", alpha_2 |-> Str(<<"B","G">>), alpha_3 |-> Str(<<"B","G","R">>), numeric |-> Str(<<"1","0","0">>)],
     [key |-> "BH", alpha_2 |-> Str(<<"B","H">>), alpha_3 |-> Str(<<"B","H","R">>), numeric |-> Str(<<"0","4","8">>)],
     [key |-> "BS", alpha_2 |-> Str(<<"B","S">>), alpha_3 |-> Str(<<"B","H","S">>), numeric |-> Str(<<"0","4","4">>)],
     [key |-> "BA", alpha_2 |-> Str(<<"B","A">>), alpha_3 |-> Str(<<"B","I","H">>), numeric |-> Str(<<"0","7","0">>)],
     [key |-> "BL", alpha_2 |-> Str(<<"B","L">>), alpha_3 |-> Str(<<"B","L","M">>), numeric |-> Str(<<"6","5","2">>)],
     [key |-> "BY", alpha_2 |-> Str(<<"B","Y">>), alpha_3 |-> Str(<<"B","L","R">>), numeric |-> Str(<<"1","1","2">>)],
     [key |-> "BZ", alpha_2 |-> Str(<<"B","Z">>), alpha_3 |-> Str(<<"B","L","Z">>), numeric |-> Str(<<"0","8","4">>)],
     [key |-> "BM", alpha_2 |-> Str(<<"B","M">>), alpha_3 |-> Str(<<"B","M","U">>), numeric |-> Str(<<"0","6","0">>)],
     [key |-> "BO", alpha_2 |-> Str(<<"B","O">>), alpha_3 |-> Str(<<"B","O","L">>), numeric |-> Str(<<"0","6","8">>)],
     [key |-> "BR", alpha_2 |-> Str(<<"B","R">>), alpha_3 |-> Str(<<"B","R","A">>), numeric |-> Str(<<"0","7","6">>)],
     [key |-> "BB", alpha_2 |-> Str(<<"B","B">>), alpha_3 |-> Str(<<"B","R","B">>), numeric |-> Str(<<"0","5","2">>)],
     [key |-> "BN", alpha_2 |-> Str(<<"B","N">>), alpha_3 |-> Str(<<"B","R","N">>), numeric |-> Str(<<"0","9","6">>)],
     [key |-> "BT", alpha_2 |-> Str(<<"B","T">>), alpha_3 |-> Str(<<"B","T","N">>), numeric |-> Str(<<"0","6","4">>)],
     [key |-> "BV", alpha_2 |-> Str(<<"B","V">>), alpha_3 |-> Str(<<"B","V","T">>), numeric |-> Str(<<"0","7","4">>)],
     [key |-> "BW", alpha_2 |-> Str(<<"B","W">>), alpha_3 |-> Str(<<"B","W","A">>), numeric |-> Str(<<"0","7","2">>)],
     [key |-> "CF", alpha_2 |-> Str(<<"C","F">>), alpha_3 |-> Str(<<"C","A","F">>), numeric |-> Str(<<"1","4","0">>)],
     [key |-> "CA", alpha_2 |-> Str(<<"C","A">>), alpha_3 |-> Str(<<"C","A","N">>), numeric |-> Str(<<"1","2","4">>)],
     [key |-> "CC", alpha_2 |-> Str(<<"C","C">>), alpha_3 |-> Str(<<"C","C","K">>), numeric |-> Str(<<"1","6","6">>)],
     [key |-> "CH", alpha_2 |-> Str(<<"C","H">>), alpha_3 |-> Str(<<"C","H","E">>), numeric |-> Str(<<"7","5","6">>)],
     [key |-> "CL", alpha_2 |-> Str(<<"C","L">>), alpha_3 |-> Str(<<"C","H","L">>), numeric |-> Str(<<"1","5","2">>)],
     [key |-> "CN", alpha_2 |-> Str(<<"C","N">>), alpha_3 |-> Str(<<"C","H","N">>), numeric |-> Str(<<"1","5","6">>)],
     [key |-> "CI", alpha_2 |-> Str(<<"C","I">>), alpha_3 |-> Str(<<"C","I","V">>), numeric |-> Str(<<"3","8","4">>)],
     [key |-> "CM", alpha_2 |-> Str(<<"C","M">>), alpha_3 |-> Str(<<"C","M","R">>), numeric |-> Str(<<"1","2","0">>)],
     [key |-> "CD", alpha_2 |-> Str(<<"C","D">>), alpha_3 |-> Str(<<"C","O","D">>), numeric |-> Str(<<"1","8","0">>)],
     [key |-> "CG", alpha_2 |-> Str(<<"C","G">>), alpha_3 |-> Str(<<"C","O","G">>), numeric |-> Str(<<"1","7","8">>)],
     [key |-> "CK", alpha_2 |-> Str(<<"C","K">>), alpha_3 |-> Str(<<"C","O","K">>), numeric |-> Str(<<"1","8","4">>)],
     [key |-> "CO", alpha_2 |-> Str(<<"C","O">>), alpha_3 |-> Str(<<"C","O","L">>), numeric |-> Str(<<"1","7","0">>)],
     [key |-> "KM", alpha_2 |-> Str(<<"K","M">>), alpha_3 |-> Str(<<"C","O","M">>), numeric |-> Str(<<"1","7","4">>)],
     [key |-> "CV", alpha_2 |-> Str(<<"C","V">>), alpha_3 |-> Str(<<"C","P","V">>), numeric |-> Str(<<"1","3","2">>)],
     [key |-> "CR", alpha_2 |-> Str(<<"C","R">>), alpha_3 |-> Str(<<"C","R","I">>), numeric |-> Str(<<"1","8","8">>)],
     [key |-> "CU", alpha_2 |-> Str(<<"C","U">>), alpha_3 |-> Str(<<"C","U","B">>), numeric |-> Str(<<"1","9","2">>)],
     [key |-> "CW", alpha_2 |-> Str(<<"C","W">>), alpha_3 |-> Str(<<"C","U","W">>), numeric |-> Str(<<"5","3","1">>)],
     [key |-> "CX", alpha_2 |-> Str(<<"C","X">>), alpha_3 |-> Str(<<"C","X","R">>), numeric |-> Str(<<"1","6","2">>)],
     [key |-> "KY", alpha_2 |-> Str(<<"K","Y">>), alpha_3 |-> Str(<<"C","Y","M">>), numeric |-> Str(<<"1","3","6">>)],
     [key |-> "CY", alpha_2 |-> Str(<<"C","Y">>), alpha_3 |-> Str(<<"C","Y","P">>), numeric |-> Str(<<"1","9","6">>)],
     [key |-> "CZ", alpha_2 |-> Str(<<"C","Z">>), alpha_3 |-> Str(<<"C","Z","E">>), numeric |-> Str(<<"2","0","3">>)],
     [key |-> "DE", alpha_2 |-> Str(<<"D","E">>), alpha_3 |-> Str(<<"D","E","U">>), numeric |-> Str(<<"2","7","6">>)],
     [key |-> "DJ", alpha_2 |-> Str(<<"D","J">>), alpha_3 |-> Str(<<"D","J","I">>), numeric |-> Str(<<"2","6","2">>)],
     [key |-> "DM", alpha_2 |-> Str(<<"D","M">>), alpha_3 |-> Str(<<"D","M","A">>), numeric |-> Str(<<"2","1","2">>)],
     [key |-> "DK", alpha_2 |-> Str(<<"D","K">>), alpha_3 |-> Str(<<"D","N","K">>), numeric |-> Str(<<"2","0","8">>)],
     [key |-> "DO", alpha_2 |-> Str(<<"D","O">>), alpha_3 |-> Str(<<"D","O","M">>), numeric |-> Str(<<"2","1","4">>)],
     [key |-> "DZ", alpha_2 |-> Str(<<"D","Z">>), alpha_3 |-> Str(<<"D","Z","A">>), numeric |-> Str(<<"0","1","2">>)],
     [key |-> "EC", alpha_2 |-> Str(<<"E","C">>), alpha_3 |-> Str(<<"E","C","U">>), numeric |-> Str(<<"2","1","8">>)],
     [key |-> "EG", alpha_2 |-> Str(<<"E","G">>), alpha_3 |-> Str(<<"E","G","Y">>), numeric |-> Str(<<"8","1","8">>)],
     [key |-> "ER", alpha_2 |-> Str(<<"E","R">>), alpha_3 |-> Str(<<"E","R","I">>), numeric |-> Str(<<"2","3","2">>)],
     [key |-> "EH", alpha_2 |-> Str(<<"E","H">>), alpha_3 |-> Str(<<"E","S","H">>), numeric |-> Str(<<"7","3","2">>)],
     [key |-> "ES", alpha_2 |-> Str(<<"E","S">>), alpha_3 |-> Str(<<"E","S","P">>), numeric |-> Str(<<"7","2","4">>)],
     [key |-> "EE", alpha_2 |-> Str(<<"E","E">>), alpha_3 |-> Str(<<"E","S","T">>), numeric |-> Str(<<"2","3","3">>)],
     [key |-> "ET", alpha_2 |-> Str(<<"E","T">>), alpha_3 |-> Str(<<"E","T","H">>), numeric |-> Str(<<"2","3","1">>)],
     [key |-> "FI", alpha_2 |-> Str(<<"F","I">>), alpha_3 |-> Str(<<"F","I","N">>), numeric |-> Str(<<"2","4","6">>)],
     [key |-> "FJ", alpha_2 |-> Str(<<"F","J">>), alpha_3 |-> Str(<<"F","J","I">>), numeric |-> Str(<<"2","4","2">>)],
     [key |-> "FK", alpha_2 |-> Str(<<"F","K">>), alpha_3 |-> Str(<<"F","L","K">>), numeric |-> Str(<<"2","3","8">>)],
     [key |-> "FR", alpha_2 |-> Str(<<"F","R">>), alpha_3 |-> Str(<<"F","R","A">>), numeric |-> Str(<<"2","5","0">>)],
     [key |-> "FO", alpha_2 |-> Str(<<"F","O">>), alpha_3 |-> Str(<<"F","R","O">>), numeric |-> Str(<<"2","3","4">>)],
     [key |-> "FM", alpha_2 |-> Str(<<"F","M">>), alpha_3 |-> Str(<<"F","S","M">>), numeric |-> Str(<<"5","8","3">>)],
     [key |-> "GA", alpha_2 |-> Str(<<"G","A">>), alpha_3 |-> Str(<<"G","A","B">>), numeric |-> Str(<<"2","6","6">>)],
     [key |-> "GB", alpha_2 |-> Str(<<"G","B">>), alpha_3 |-> Str(<<"G","B","R">>), numeric |-> Str(<<"8","2","6">>)],
     [key |-> "GE", alpha_2 |-> Str(<<"G","E">>), alpha_3 |-> Str(<<"G","E","O">>), numeric |-> Str(<<"2","6","8">>)],
     [key |-> "GG", alpha_2 |-> Str(<<"G","G">>), alpha_3 |-> Str(<<"G","G","Y">>), numeric |-> Str(<<"8","3","1">>)],
     [key |-> "GH", alpha_2 |-> Str(<<"G","H">>), alpha_3 |-> Str(<<"G","H","A">>), numeric |-> Str(<<"2","8","8">>)],
     [key |-> "GI", alpha_2 |-> Str(<<"G","I">>), alpha_3 |-> Str(<<"G","I","B">>), numeric |-> Str(<<"2","9","2">>)],
     [key |-> "GN", alpha_2 |-> Str(<<"G","N">>), alpha_3 |-> Str(<<"G","I","N">>), numeric |-> Str(<<"3","2","4">>)],
     [key |-> "GP", alpha_2 |-> Str(<<"G","P">>), alpha_3 |-> Str(<<"G","L","P">>), numeric |-> Str(<<"3","1","2">>)],
     [key |-> "GM", alpha_2 |-> Str(<<"G","M">>), alpha_3 |-> Str(<<"G","M","B">>), numeric |-> Str(<<"2","7","0">>)],
     [key |-> "GW", alpha_2 |-> Str(<<"G","W">>), alpha_3 |-> Str(<<"G","N","B">>), numeric |-> Str(<<"6","2","4">>)],
     [key |-> "GQ", alpha_2 |-> Str(<<"G","Q">>), alpha_3 |-> Str(<<"G","N","Q">>), numeric |-> Str(<<"2","2","6">>)],
     [key |-> "GR", alpha_2 |-> Str(<<"G","R">>), alpha_3 |-> Str(<<"G","R","C">>), numeric |-> Str(<<"3","0","0">>)],
     [key |-> "GD", alpha_2 |-> Str(<<"G","D">>), alpha_3 |-> Str(<<"G","R","D">>), numeric |-> Str(<<"3","0","8">>)],
     [key |-> "GL", alpha_2 |-> Str(<<"G","L">>), alpha_3 |-> Str(<<"G","R","L">>), numeric |-> Str(<<"3","0","4">>)],
     [key |-> "GT", alpha_2 |-> Str(<<"G","T">>), alpha_3 |-> Str(<<"G","T","M">>), numeric |-> Str(<<"3","2","0">>)],
     [key |-> "GF", alpha_2 |-> Str(<<"G","F">>), alpha_3 |-> Str(<<"G","U","F">>), numeric |-> Str(<<"2","5","4">>)],
     [key |-> "GU", alpha_2 |-> Str(<<"G","U">>), alpha_3 |-> Str(<<"G","U","M">>), numeric |-> Str(<<"3","1","6">>)],
     [key |-> "GY", alpha_2 |-> Str(<<"G","Y">>), alpha_3 |-> Str(<<"G","U","Y">>), numeric |-> Str(<<"3","2","8">>)],
     [key |-> "HK", alpha_2 |-> Str(<<"H","K">>), alpha_3 |-> Str(<<"H","K","G">>), numeric |-> Str(<<"3","4","4">>)],
     [key |-> "HM", alpha_2 |-> Str(<<"H","M">>), alpha_3 |-> Str(<<"H","M","D">>), numeric |-> Str(<<"3","3","4">>)],
     [key |-> "HN", alpha_2 |-> Str(<<"H","N">>), alpha_3 |-> Str(<<"H","N","D">>), numeric |-> Str(<<"3","4","0">>)],
     [key |-> "HR", alpha_2 |-> Str(<<"H","R">>), alpha_3 |-> Str(<<"H","R","V">>), numeric |-> Str(<<"1","9","1">>)],
     [key |-> "HT", alpha_2 |-> Str(<<"H","T">>), alpha_3 |-> Str(<<"H","T","I">>), numeric |-> Str(<<"3","3","2">>)],
     [key |-> "HU", alpha_2 |-> Str(<<"H","U">>), alpha_3 |-> Str(<<"H","U","N">>), numeric |-> Str(<<"3","4","8">>)],
     [key |-> "ID", alpha_2 |-> Str(<<"I","D">>), alpha_3 |-> Str(<<"I","D","N">>), numeric |-> Str(<<"3","6","0">>)],
     [key |-> "IM", alpha_2 |-> Str(<<"I","M">>), alpha_3 |-> Str(<<"I","M","N">>), numeric |-> Str(<<"8","3","3">>)],
     [key |-> "IN", alpha_2 |-> Str(<<"I","N">>), alpha_3 |-> Str(<<"I","N","D">>), numeric |-> Str(<<"3","5","6">>)],
     [key |-> "IO", alpha_2 |-> Str(<<"I","O">>), alpha_3 |-> Str(<<"I","O","T">>), numeric |-> Str(<<"0","8","6">>)],
     [key |-> "IE", alpha_2 |-> Str(<<"I","E">>), alpha_3 |-> Str(<<"I","R","L">>), numeric |-> Str(<<"3","7","2">>)],
     [key |-> "IR", alpha_2 |-> Str(<<"I","R">>), alpha_3 |-> Str(<<"I","R","N">>), numeric |-> Str(<<"3","6","4">>)],
     [key |-> "IQ", alpha_2 |-> Str(<<"I","Q">>), alpha_3 |-> Str(<<"I","R","Q">>), numeric |-> Str(<<"3","6","8">>)],
     [key |-> "IS", alpha_2 |-> Str(<<"I","S">>), alpha_3 |-> Str(<<"I","S","L">>), numeric |-> Str(<<"3","5","2">>)],
     [key |-> "IL", alpha_2 |-> Str(<<"I","L">>), alpha_3 |-> Str(<<"I","S","R">>), numeric |-> Str(<<"3","7","6">>)],
     [key |-> "IT", alpha_2 |-> Str(<<"I","T">>), alpha_3 |-> Str(<<"I","T","A">>), numeric |-> Str(<<"3","8","0">>)],
     [key |-> "JM", alpha_2 |-> Str(<<"J","M">>), alpha_3 |-> Str(<<"J","A","M">>), numeric |-> Str(<<"3","8","8">>)],
     [key |-> "JE", alpha_2 |-> Str(<<"J","E">>), alpha_3 |-> Str(<<"J","E","Y">>), numeric |-> Str(<<"8","3","2">>)],
     [key |-> "JO", alpha_2 |-> Str(<<"J","O">>), alpha_3 |-> Str(<<"J","O","R">>), numeric |-> Str(<<"4","0","0">>)],
     [key |-> "JP", alpha_2 |-> Str(<<"J","P">>), alpha_3 |-> Str(<<"J","P","N">>), numeric |-> Str(<<"3","9","2">>)],
     [key |-> "KZ", alpha_2 |-> Str(<<"K","Z">>), alpha_3 |-> Str(<<"K","A","Z">>), numeric |-> Str(<<"3","9","8">>)],
     [key |-> "KE", alpha_2 |-> Str(<<"K","E">>), alpha_3 |-> Str(<<"K","E","N">>), numeric |-> Str(<<"4","0","4">>)],
     [key |-> "KG", alpha_2 |-> Str(<<"K","G">>), alpha_3 |-> Str(<<"K","G","Z">>), numeric |-> Str(<<"4","1","7">>)],
     [key |-> "KH", alpha_2 |-> Str(<<"K","H">>), alpha_3 |-> Str(<<"K","H","M">>), numeric |-> Str(<<"1","1","6">>)],
     [key |-> "KI", alpha_2 |-> Str(<<"K","I">>), alpha_3 |-> Str(<<"K","I","R">>), numeric |-> Str(<<"2","9","6">>)],
     [key |-> "KN", alpha_2 |-> Str(<<"K","N">>), alpha_3 |-> Str(<<"K","N","A">>), numeric |-> Str(<<"6","5","9">>)],
     [key |-> "KR", alpha_2 |-> Str(<<"K","R">>), alpha_3 |-> Str(<<"K","O","R">>), numeric |-> Str(<<"4","1","0">>)],
     [key |-> "KW", alpha_2 |-> Str(<<"K","W">>), alpha_3 |-> Str(<<"K","W","T">>), numeric |-> Str(<<"4","1","4">>)],
     [key |-> "LA", alpha_2 |-> Str(<<"L","A">>), alpha_3 |-> Str(<<"L","A","O">>), numeric |-> Str(<<"4","1","8">>)],
     [key |-> "LB", alpha_2 |-> Str(<<"L","B">>), alpha_3 |-> Str(<<"L","B","N">>), numeric |-> Str(<<"4","2","2">>)],
     [key |-> "LR", alpha_2 |-> Str(<<"L","R">>), alpha_3 |-> Str(<<"L","B","R">>), numeric |-> Str(<<"4","3","0">>)],
     [key |-> "LY", alpha_2 |-> Str(<<"L","Y">>), alpha_3 |-> Str(<<"L","B","Y">>), numeric |-> Str(<<"4","3","4">>)],
     [key |-> "LC", alpha_2 |-> Str(<<"L","C">>), alpha_3 |-> Str(<<"L","C","A">>), numeric |-> Str(<<"6","6","2">>)],
     [key |-> "LI", alpha_2 |-> Str(<<"L","I">>), alpha_3 |-> Str(<<"L","I","E">>), numeric |-> Str(<<"4","3","8">>)],
     [key |-> "LK", alpha_2 |-> Str(<<"L","K">>), alpha_3 |-> Str(<<"L","K","A">>), numeric |-> Str(<<"1","4","4">>)],
     [key |-> "LS", alpha_2 |-> Str(<<"L","S">>), alpha_3 |-> Str(<<"L","S","O">>), numeric |-> Str(<<"4","2","6">>)],
     [key |-> "LT", alpha_2 |-> Str(<<"L","T">>), alpha_3 |-> Str(<<"L","T","U">>), numeric |-> Str(<<"4","4","0">>)],
     [key |-> "LU", alpha_2 |-> Str(<<"L","U">>), alpha_3 |-> Str(<<"L","U","X">>), numeric |-> Str(<<"4","4","2">>)],
     [key |-> "LV", alpha_2 |-> Str(<<"L","V">>), alpha_3 |-> Str(<<"L","V","A">>), numeric |-> Str(<<"4","2","8">>)],
     [key |-> "MO", alpha_2 |-> Str(<<"M","O">>), alpha_3 |-> Str(<<"M","A","C">>), numeric |-> Str(<<"4","4","6">>)],
     [key |-> "MF", alpha_2 |-> Str(<<"M","F">>), alpha_3 |-> Str(<<"M","A","F">>), numeric |-> Str(<<"6","6","3">>)],
     [key |-> "MA", alpha_2 |-> Str(<<"M","A">>), alpha_3 |-> Str(<<"M","A","R">>), numeric |-> Str(<<"5","0","4">>)],
     [key |-> "MC", alpha_2 |-> Str(<<"M","C">>), alpha_3 |-> Str(<<"M","C","O">>), numeric |-> Str(<<"4","9","2">>)],
     [key |-> "MD", alpha_2 |-> Str(<<"M","D">>), alpha_3 |-> Str(<<"M","D","A">>), numeric |-> Str(<<"4","9","8">>)],
     [key |-> "MG", alpha_2 |-> Str(<<"M","G">>), alpha_3 |-> Str(<<"M","D","G">>), numeric |-> Str(<<"4","5","0">>)],
     [key |-> "MV", alpha_2 |-> Str(<<"M","V">>), alpha_3 |-> Str(<<"M","D","V">>), numeric |-> Str(<<"4","6","2">>)],
     [key |-> "MX", alpha_2 |-> Str(<<"M","X">>), alpha_3 |-> Str(<<"M","E","X">>), numeric |-> Str(<<"4","8","4">>)],
     [key |-> "MH", alpha_2 |-> Str(<<"M","H">>), alpha_3 |-> Str(<<"M","H","L">>), numeric |-> Str(<<"5","8","4">>)],
     [key |-> "MK", alpha_2 |-> Str(<<"M","K">>), alpha_3 |-> Str(<<"M","K","D">>), numeric |-> Str(<<"8","0","7">>)],
     [key |-> "ML", alpha_2 |-> Str(<<"M","L">>), alpha_3 |-> Str(<<"M","L","I">>), numeric |-> Str(<<"4","6","6">>)],
     [key |-> "MT", alpha_2 |-> Str(<<"M","T">>), alpha_3 |-> Str(<<"M","L","T">>), numeric |-> Str(<<"4","7","0">>)],
     [key |-> "MM", alpha_2 |-> Str(<<"M","M">>), alpha_3 |-> Str(<<"M","M","R">>), numeric |-> Str(<<"1","0","4">>)],
     [key |-> "ME", alpha_2 |-> Str(<<"M","E">>), alpha_3 |-> Str(<<"M","N","E">>), numeric |-> Str(<<"4","9","9">>)],
     [key |-> "MN", alpha_2 |-> Str(<<"M","N">>), alpha_3 |-> Str(<<"M","N","G">>), numeric |-> Str(<<"4","9","6">>)],
     [key |-> "MP", alpha_2 |-> Str(<<"M","P">>), alpha_3 |-> Str(<<"M","N","P">>), numeric |-> Str(<<"5","8","0">>)],
     [key |-> "MZ", alpha_2 |-> Str(<<"M","Z">>), alpha_3 |-> Str(<<"M","O","Z">>), numeric |-> Str(<<"5","0","8">>)],
     [key |-> "MR", alpha_2 |-> Str(<<"M","R">>), alpha_3 |-> Str(<<"M","R","T">>), numeric |-> Str(<<"4","7","8">>)],
     [key |-> "MS", alpha_2 |-> Str(<<"M","S">>), alpha_3 |-> Str(<<"M","S","R">>), numeric |-> Str(<<"5","0","0">>)],
     [key |-> "MQ", alpha_2 |-> Str(<<"M","Q">>), alpha_3 |-> Str(<<"M","T","Q">>), numeric |-> Str(<<"4","7","4">>)],
     [key |-> "MU", alpha_2 |-> Str(<<"M","U">>), alpha_3 |-> Str(<<"M","U","S">>), numeric |-> Str(<<"4","8","0">>)],
     [key |-> "MW", alpha_2 |-> Str(<<"M","W">>), alpha_3 |-> Str(<<"M","W","I">>), numeric |-> Str(<<"4","5","4">>)],
     [key |-> "MY", alpha_2 |-> Str(<<"M","Y">>), alpha_3 |-> Str(<<"M","Y","S">>), numeric |-> Str(<<"4","5","8">>)],
     [key |-> "YT", alpha_2 |-> Str(<<"Y","T">>), alpha_3 |-> Str(<<"M","Y","T">>), numeric |-> Str(<<"1","7","5">>)],
     [key |-> "NA", alpha_2 |-> Str(<<"N","A">>), alpha_3 |-> Str(<<"N","A","M">>), numeric |-> Str(<<"5","1","6">>)],
     [key |-> "NC", alpha_2 |-> Str(<<"N","C">>), alpha_3 |-> Str(<<"N","C","L">>), numeric |-> Str(<<"5","4","0">>)],
     [key |-> "NE", alpha_2 |-> Str(<<"N","E">>), alpha_3 |-> Str(<<"N","E","R">>), numeric |-> Str(<<"5","6","2">>)],
     [key |-> "NF", alpha_2 |-> Str(<<"N","F">>), alpha_3 |-> Str(<<"N","F","K">>), numeric |-> Str(<<"5","7","4">>)],
     [key |-> "NG", alpha_2 |-> Str(<<"N","G">>), alpha_3 |-> Str(<<"N","G","A">>), numeric |-> Str(<<"5","6","6">>)],
     [key |-> "NI", alpha_2 |-> Str(<<"N","I">>), alpha_3 |-> Str(<<"N","I","C">>), numeric |-> Str(<<"5","5","8">>)],
     [key |-> "NU", alpha_2 |-> Str(<<"N","U">>), alpha_3 |-> Str(<<"N","I","U">>), numeric |-> Str(<<"5","7","0">>)],
     [key |-> "NL", alpha_2 |-> Str(<<"N","L">>), alpha_3 |-> Str(<<"N","L","D">>), numeric |-> Str(<<"5","2","8">>)],
     [key |-> "NO", alpha_2 |-> Str(<<"N","O">>), alpha_3 |-> Str(<<"N","O","R">>), numeric |-> Str(<<"5","7","8">>)],
     [key |-> "NP", alpha_2 |-> Str(<<"N","P">>), alpha_3 |-> Str(<<"N","P","L">>), numeric |-> Str(<<"5","2","4">>)],
     [key |-> "NR", alpha_2 |-> Str(<<"N","R">>), alpha_3 |-> Str(<<"N","R","U">>), numeric |-> Str(<<"5","2","0">>)],
     [key |-> "NZ", alpha_2 |-> Str(<<"N","Z">>), alpha_3 |-> Str(<<"N","Z","L">>), numeric |-> Str(<<"5","5","4">>)],
     [key |-> "OM", alpha_2 |-> Str(<<"O","M">>), alpha_3 |-> Str(<<"O","M","N">>), numeric |-> Str(<<"5","1","2">>)],
     [key |-> "PK", alpha_2 |-> Str(<<"P","K">>), alpha_3 |-> Str(<<"P","A","K">>), numeric |-> Str(<<"5","8","6">>)],
     [key |-> "PA", alpha_2 |-> Str(<<"P","A">>), alpha_3 |-> Str(<<"P","A","N">>), numeric |-> Str(<<"5","9","1">>)],
     [key |-> "PN", alpha_2 |-> Str(<<"P","N">>), alpha_3 |-> Str(<<"P","C","N">>), numeric |-> Str(<<"6","1","2">>)],
     [key |-> "PE", alpha_2 |-> Str(<<"P","E">>), alpha_3 |-> Str(<<"P","E","R">>), numeric |-> Str(<<"6","0","4">>)],
     [key |-> "PH", alpha_2 |-> Str(<<"P","H">>), alpha_3 |-> Str(<<"P","H","L">>), numeric |-> Str(<<"6","0","8">>)],
     [key |-> "PW", alpha_2 |-> Str(<<"P","W">>), alpha_3 |-> Str(<<"P","L","W">>), numeric |-> Str(<<"5","8","5">>)],
     [key |-> "PG", alpha_2 |-> Str(<<"P","G">>), alpha_3 |-> Str(<<"P","N","G">>), numeric |-> Str(<<"5","9","8">>)],
     [key |-> "PL", alpha_2 |-> Str(<<"P","L">>), alpha_3 |-> Str(<<"P","O","L">>), numeric |-> Str(<<"6","1","6">>)],
     [key |-> "PR", alpha_2 |-> Str(<<"P","R">>), alpha_3 |-> Str(<<"P","R","I">>), numeric |-> Str(<<"6","3","0">>)],
     [key |-> "KP", alpha_2 |-> Str(<<"K","P">>), alpha_3 |-> Str(<<"P","R","K">>), numeric |-> Str(<<"4","0","8">>)],
     [key |-> "PT", alpha_2 |-> Str(<<"P","T">>), alpha_3 |-> Str(<<"P","R","T">>), numeric |-> Str(<<"6","2","0">>)],
     [key |-> "PY", alpha_2 |-> Str(<<"P","Y">>), alpha_3 |-> Str(<<"P","R","Y">>), numeric |-> Str(<<"6","0","0">>)],
     [key |-> "PS", alpha_2 |-> Str(<<"P","S">>), alpha_3 |-> Str(<<"P","S","E">>), numeric |-> Str(<<"2","7","5">>)],
     [key |-> "PF", alpha_2 |-> Str(<<"P","F">>), alpha_3 |-> Str(<<"P","Y","F">>), numeric |-> Str(<<"2","5","8">>)],
     [key |-> "QA", alpha_2 |-> Str(<<"Q","A">>), alpha_3 |-> Str(<<"Q","A","T">>), numeric |-> Str(<<"6","3","4">>)],
     [key |-> "RE", alpha_2 |-> Str(<<"R","E">>), alpha_3 |-> Str(<<"R","E","U">>), numeric |-> Str(<<"6","3","8">>)],
     [key |-> "RO", alpha_2 |-> Str(<<"R","O">>), alpha_3 |-> Str(<<"R","O","U">>), numeric |-> Str(<<"6","4","2">>)],
     [key |-> "RU", alpha_2 |-> Str(<<"R","U">>), alpha_3 |-> Str(<<"R","U","S">>), numeric |-> Str(<<"6","4","3">>)],
     [key |-> "RW", alpha_2 |-> Str(<<"R","W">>), alpha_3 |-> Str(<<"R","W","A">>), numeric |-> Str(<<"6","4","6">>)],
     [key |-> "SA", alpha_2 |-> Str(<<"S","A">>), alpha_3 |-> Str(<<"S","A","U">>), numeric |-> Str(<<"6","8","2">>)],
     [key |-> "SD", alpha_2 |-> Str(<<"S","D">>), alpha_3 |-> Str(<<"S","D","N">>), numeric |-> Str(<<"7","2","9">>)],
     [key |-> "SN", alpha_2 |-> Str(<<"S","N">>), alpha_3 |-> Str(<<"S","E","N">>), numeric |-> Str(<<"6","8","6">>)],
     [key |-> "SG", alpha_2 |-> Str(<<"S","G">>), alpha_3 |-> Str(<<"S","G","P">>), numeric |-> Str(<<"7","0","2">>)],
     [key |-> "GS", alpha_2 |-> Str(<<"G","S">>), alpha_3 |-> Str(<<"S","G","S">>), numeric |-> Str(<<"2","3","9">>)],
     [key |-> "SH", alpha_2 |-> Str(<<"S","H">>), alpha_3 |-> Str(<<"S","H","N">>), numeric |-> Str(<<"6","5","4">>)],
     [key |-> "SJ", alpha_2 |-> Str(<<"S","J">>), alpha_3 |-> Str(<<"S","J","M">>), numeric |-> Str(<<"7","4","4">>)],
     [key |-> "SB", alpha_2 |-> Str(<<"S","B">>), alpha_3 |-> Str(<<"S","L","B">>), numeric |-> Str(<<"0","9","0">>)],
     [key |-> "SL", alpha_2 |-> Str(<<"S","L">>), alpha_3 |-> Str(<<"S","L","E">>), numeric |-> Str(<<"6","9","4">>)],
     [key |-> "SV", alpha_2 |-> Str(<<"S","V">>), alpha_3 |-> Str(<<"S","L","V">>), numeric |-> Str(<<"2","2","2">>)],
     [key |-> "SM", alpha_2 |-> Str(<<"S","M">>), alpha_3 |-> Str(<<"S","M","R">>), numeric |-> Str(<<"6","7","4">>)],
     [key |-> "SO", alpha_2 |-> Str(<<"S","O">>), alpha_3 |-> Str(<<"S","O","M">>), numeric |-> Str(<<"7","0","6">>)],
     [key |-> "PM", alpha_2 |-> Str(<<"P","M">>), alpha_3 |-> Str(<<"S","P","M">>), numeric |-> Str(<<"6","6","6">>)],
     [key |-> "RS", alpha_2 |-> Str(<<"R","S">>), alpha_3 |-> Str(<<"S","R","B">>), numeric |-> Str(<<"6","8","8">>)],
     [key |-> "SS", alpha_2 |-> Str(<<"S","S">>), alpha_3 |-> Str(<<"S","S","D">>), numeric |-> Str(<<"7","2","8">>)],
     [key |-> "ST", alpha_2 |-> Str(<<"S","T">>), alpha_3 |-> Str(<<"S","T","P">>), numeric |-> Str(<<"6","7","8">>)],
     [key |-> "SR", alpha_2 |-> Str(<<"S","R">>), alpha_3 |-> Str(<<"S","U","R">>), numeric |-> Str(<<"7","4","0">>)],
     [key |-> "SK", alpha_2 |-> Str(<<"S","K">>), alpha_3 |-> Str(<<"S","V","K">>), numeric |-> Str(<<"7","0","3">>)],
     [key |-> "SI", alpha_2 |-> Str(<<"S","I">>), alpha_3 |-> Str(<<"S","V","N">>), numeric |-> Str(<<"7","0","5">>)],
     [key |-> "SE", alpha_2 |-> Str(<<"S","E">>), alpha_3 |-> Str(<<"S","W","E">>), numeric |-> Str(<<"7","5","2">>)],
     [key |-> "SZ", alpha_2 |-> Str(<<"S","Z">>), alpha_3 |-> Str(<<"S","W","Z">>), numeric |-> Str(<<"7","4","8">>)],
     [key |-> "SX", alpha_2 |-> Str(<<"S","X">>), alpha_3 |-> Str(<<"S","X","M">>), numeric |-> Str(<<"5","3","4">>)],
     [key |-> "SC", alpha_2 |-> Str(<<"S","C">>), alpha_3 |-> Str(<<"S","Y","C">>), numeric |-> Str(<<"6","9","0">>)],
     [key |-> "SY", alpha_2 |-> Str(<<"S","Y">>), alpha_3 |-> Str(<<"S","Y","R">>), numeric |-> Str(<<"7","6","0">>)],
     [key |-> "TC", alpha_2 |-> Str(<<"T","C">>), alpha_3 |-> Str(<<"T","C","A">>), numeric |-> Str(<<"7","9","6">>)],
     [key |-> "TD", alpha_2 |-> Str(<<"T","D">>), alpha_3 |-> Str(<<"T","C","D">>), numeric |-> Str(<<"1","4","8">>)],
     [key |-> "TG", alpha_2 |-> Str(<<"T","G">>), alpha_3 |-> Str(<<"T","G","O">>), numeric |-> Str(<<"7","6","8">>)],
     [key |-> "TH", alpha_2 |-> Str(<<"T","H">>), alpha_3 |-> Str(<<"T","H","A">>), numeric |-> Str(<<"7","6","4">>)],
     [key |-> "TJ", alpha_2 |-> Str(<<"T","J">>), alpha_3 |-> Str(<<"T","J","K">>), numeric |-> Str(<<"7","6","2">>)],
     [key |-> "TK", alpha_2 |-> Str(<<"T","K">>), alpha_3 |-> Str(<<"T","K","L">>), numeric |-> Str(<<"7","7","2">>)],
     [key |-> "TM", alpha_2 |-> Str(<<"T","M">>), alpha_3 |-> Str(<<"T","K","M">>), numeric |-> Str(<<"7","9","5">>)],
     [key |-> "TL", alpha_2 |-> Str(<<"T","L">>), alpha_3 |-> Str(<<"T","L","S">>), numeric |-> Str(<<"6","2","6">>)],
     [key |-> "TO", alpha_2 |-> Str(<<"T","O">>), alpha_3 |-> Str(<<"T","O","N">>), numeric |-> Str(<<"7","7","6">>)],
     [key |-> "TT", alpha_2 |-> Str(<<"T","T">>), alpha_3 |-> Str(<<"T","T","O">>), numeric |-> Str(<<"7","8","0">>)],
     [key |-> "TN", alpha_2 |-> Str(<<"T","N">>), alpha_3 |-> Str(<<"T","U","N">>), numeric |-> Str(<<"7","8","8">>)],
     [key |-> "TR", alpha_2 |-> Str(<<"T","R">>), alpha_3 |-> Str(<<"T","U","R">>), numeric |-> Str(<<"7","9","2">>)],
     [key |-> "TV", alpha_2 |-> Str(<<"T","V">>), alpha_3 |-> Str(<<"T","U","V">>), numeric |-> Str(<<"7","9","8">>)],
     [key |-> "TW", alpha_2 |-> Str(<<"T","W">>), alpha_3 |-> Str(<<"T","W","N">>), numeric |-> Str(<<"1","5","8">>)],
     [key |-> "TZ", alpha_2 |-> Str(<<"T","Z">>), alpha_3 |-> Str(<<"T","Z","A">>), numeric |-> Str(<<"8","3","4">>)],
     [key |-> "UG", alpha_2 |-> Str(<<"U","G">>), alpha_3 |-> Str(<<"U","G","A">>), numeric |-> Str(<<"8","0","0">>)],
     [key |-> "UA", alpha_2 |-> Str(<<"U","A">>), alpha_3 |-> Str(<<"U","K","R">>), numeric |-> Str(<<"8","0","4">>)],
     [key |-> "UM", alpha_2 |-> Str(<<"U","M">>), alpha_3 |-> Str(<<"U","M","I">>), numeric |-> Str(<<"5","8","1">>)],
     [key |-> "UY", alpha_2 |-> Str(<<"U","Y">>), alpha_3 |-> Str(<<"U","R","Y">>), numeric |-> Str(<<"8","5","8">>)],
     [key |-> "US", alpha_2 |-> Str(<<"U","S">>), alpha_3 |-> Str(<<"U","S","A">>), numeric |-> Str(<<"8","4","0">>)],
     [key |-> "UZ", alpha_2 |-> Str(<<"U","Z">>), alpha_3 |-> Str(<<"U","Z","B">>), numeric |-> Str(<<"8","6","0">>)],
     [key |-> "VA", alpha_2 |-> Str(<<"V","A">>), alpha_3 |-> Str(<<"V","A","T">>), numeric |-> Str(<<"3","3","6">>)],
     [key |-> "VC", alpha_2 |-> Str(<<"V","C">>), alpha_3 |-> Str(<<"V","C","T">>), numeric |-> Str(<<"6","7","0">>)],
     [key |-> "VE", alpha_2 |-> Str(<<"V","E">>), alpha_3 |-> Str(<<"V","E","N">>), numeric |-> Str(<<"8","6","2">>)],
     [key |-> "VG", alpha_2 |-> Str(<<"V","G">>), alpha_3 |-> Str(<<"V","G","B">>), numeric |-> Str(<<"0","9","2">>)],
     [key |-> "VI", alpha_2 |-> Str(<<"V","I">>), alpha_3 |-> Str(<<"V","I","R">>), numeric |-> Str(<<"8","5","0">>)],
     [key |-> "VN", alpha_2 |-> Str(<<"V","N">>), alpha_3 |-> Str(<<"V","N","M">>), numeric |-> Str(<<"7","0","4">>)],
     [key |-> "VU", alpha_2 |-> Str(<<"V","U">>), alpha_3 |-> Str(<<"V","U","T">>), numeric |-> Str(<<"5","4","8">>)],
     [key |-> "WF", alpha_2 |-> Str(<<"W","F">>), alpha_3 |-> Str(<<"W","L","F">>), numeric |-> Str(<<"8","7","6">>)],
     [key |-> "WS", alpha_2 |-> Str(<<"W","S">>), alpha_3 |-> Str(<<"W","S","M">>), numeric |-> Str(<<"8","8","2">>)],
     [key |-> "YE", alpha_2 |-> Str(<<"Y","E">>), alpha_3 |-> Str(<<"Y","E","M">>), numeric |-> Str(<<"8","8","7">>)],
     [key |-> "ZA", alpha_2 |-> Str(<<"Z","A">>), alpha_3 |-> Str(<<"Z","A","F">>), numeric |-> Str(<<"7","1","0">>)],
     [key |-> "ZM", alpha_2 |-> Str(<<"Z","M">>), alpha_3 |-> Str(<<"Z","M","B">>), numeric |-> Str(<<"8","9","4">>)],
     [key |-> "ZW", alpha_2 |-> Str(<<"Z","W">>), alpha_3 |-> Str(<<"Z","W","E">>), numeric |-> Str(<<"7","1","6">>)] >>

CurrencyDecls ==
  << [key |-> "AED", alpha_3 |-> Str(<<"A","E","D">>), numeric |-> Str(<<"7","8","4">>), digits |-> DefaultDigits],
     [key |-> "AFN", alpha_3 |-> Str(<<"A","F","N">>), numeric |-> Str(<<"9","7","1">>), digits |-> DefaultDigits],
     [key |-> "ALL", alpha_3 |-> Str(<<"A","L","L">>), numeric |-> Str(<<"0","0","8">>), digits |-> DefaultDigits],
     [key |-> "AMD", alpha_3 |-> Str(<<"A","M","D">>), numeric |-> Str(<<"0","5","1">>), digits |-> DefaultDigits],
     [key |-> "ANG", alpha_3 |-> Str(<<"A","N","G">>), numeric |-> Str(<<"5","3","2">>), digits |-> DefaultDigits],
     [key |-> "AOA", alpha_3 |-> Str(<<"A","O","A">>), numeric |-> Str(<<"9","7","3">>), digits |-> DefaultDigits],
     [key |-> "ARS", alpha_3 |-> Str(<<"A","R","S">>), numeric |-> Str(<<"0","3","2">>), digits |-> DefaultDigits],
     [key |-> "AUD", alpha_3 |-> Str(<<"A","U","D">>), numeric |-> Str(<<"0","3","6">>), digits |-> DefaultDigits],
     [key |-> "AWG", alpha_3 |-> Str(<<"A","W","G">>), numeric |-> Str(<<"5","3","3">>), digits |-> DefaultDigits],
     [key |-> "AZN", alpha_3 |-> Str(<<"A","Z","N">>), numeric |-> Str(<<"9","4","4">>), digits |-> DefaultDigits],
     [key |-> "BAM", alpha_3 |-> Str(<<"B","A","M">>), numeric |-> Str(<<"9","7","7">>), digits |-> DefaultDigits],
     [key |-> "BBD", alpha_3 |-> Str(<<"B","B","D">>), numeric |-> Str(<<"0","5","2">>), digits |-> DefaultDigits],
     [key |-> "BDT", alpha_3 |-> Str(<<"B","D","T">>), numeric |-> Str(<<"0","5","0">>), digits |-> DefaultDigits],
     [key |-> "BGN", alpha_3 |-> Str(<<"B","G","N">>), numeric |-> Str(<<"9","7","5">>), digits |-> DefaultDigits],
     [key |-> "BHD", alpha_3 |-> Str(<<"B","H","D">>), numeric |-> Str(<<"0","4","8">>), digits |-> 3],
     [key |-> "BIF", alpha_3 |-> Str(<<"B","I","F">>), numeric |-> Str(<<"1","0","8">>), digits |-> 0],
     [key |-> "BMD", alpha_3 |-> Str(<<"B","M","D">>), numeric |-> Str(<<"0","6","0">>), digits |-> DefaultDigits],
     [key |-> "BND", alpha_3 |-> Str(<<"B","N","D">>), numeric |-> Str(<<"0","9","6">>), digits |-> DefaultDigits],
     [key |-> "BOB", alpha_3 |-> Str(<<"B","O","B">>), numeric |-> Str(<<"0","6","8">>), digits |-> DefaultDigits],
     [key |-> "BOV", alpha_3 |-> Str(<<"B","O","V">>), numeric |-> Str(<<"9","8","4">>), digits |-> DefaultDigits],
     [key |-> "BRL", alpha_3 |-> Str(<<"B","R","L">>), numeric |-> Str(<<"9","8","6">>), digits |-> DefaultDigits],
     [key |-> "BSD", alpha_3 |-> Str(<<"B","S","D">>), numeric |-> Str(<<"0","4","4">>), digits |-> DefaultDigits],
     [key |-> "BTN", alpha_3 |-> Str(<<"B","T","N">>), numeric |-> Str(<<"0","6","4">>), digits |-> DefaultDigits],
     [key |-> "BWP", alpha_3 |-> Str(<<"B","W","P">>), numeric |-> Str(<<"0","7","2">>), digits |-> DefaultDigits],
     [key |-> "BYN", alpha_3 |-> Str(<<"B","Y","N">>), numeric |-> Str(<<"9","3","3">>), digits |-> DefaultDigits],
     [key |-> "BZD", alpha_3 |-> Str(<<"B","Z","D">>), numeric |-> Str(<<"0","8","4">>), digits |-> DefaultDigits],
     [key |-> "CAD", alpha_3 |-> Str(<<"C","A","D">>), numeric |-> Str(<<"1","2","4">>), digits |-> DefaultDigits],
     [key |-> "CDF", alpha_3 |-> Str(<<"C","D","F">>), numeric |-> Str(<<"9","7","6">>), digits |-> DefaultDigits],
     [key |-> "CHE", alpha_3 |-> Str(<<"C","H","E">>), numeric |-> Str(<<"9","4","7">>), digits |-> DefaultDigits],
     [key |-> "CHF", alpha_3 |-> Str(<<"C","H","F">>), numeric |-> Str(<<"7","5","6">>), digits |-> DefaultDigits],
     [key |-> "CHW", alpha_3 |-> Str(<<"C","H","W">>), numeric |-> Str(<<"9","4","8">>), digits |-> DefaultDigits],
     [key |-> "CLF", alpha_3 |-> Str(<<"C","L","F">>), numeric |-> Str(<<"9","9","0">>), digits |-> DefaultDigits],
     [key |-> "CLP", alpha_3 |-> Str(<<"C","L","P">>), numeric |-> Str(<<"1","5","2">>), digits |-> 0],
     [key |-> "CNY", alpha_3 |-> Str(<<"C","N","Y">>), numeric |-> Str(<<"1","5","6">>), digits |-> DefaultDigits],
     [key |-> "COP", alpha_3 |-> Str(<<"C","O","P">>), numeric |-> Str(<<"1","7","0">>), digits |-> DefaultDigits],
     [key |-> "COU", alpha_3 |-> Str(<<"C","O","U">>), numeric |-> Str(<<"9","7","0">>), digits |-> DefaultDigits],
     [key |-> "CRC", alpha_3 |-> Str(<<"C","R","C">>), numeric |-> Str(<<"1","8","8">>), digits |-> DefaultDigits],
     [key |-> "CUC", alpha_3 |-> Str(<<"C","U","C">>), numeric |-> Str(<<"9","3","1">>), digits |-> DefaultDigits],
     [key |-> "CUP", alpha_3 |-> Str(<<"C","U","P">>), numeric |-> Str(<<"1","9","2">>), digits |-> DefaultDigits],
     [key |-> "CVE", alpha_3 |-> Str(<<"C","V","E">>), numeric |-> Str(<<"1","3","2">>), digits |-> DefaultDigits],
     [key |-> "CZK", alpha_3 |-> Str(<<"C","Z","K">>), numeric |-> Str(<<"2","0","3">>), digits |-> DefaultDigits],
     [key |-> "DJF", alpha_3 |-> Str(<<"D","J","F">>), numeric |-> Str(<<"2","6","2">>), digits |-> 0],
     [key |-> "DKK", alpha_3 |-> Str(<<"D","K","K">>), numeric |-> Str(<<"2","0","8">>), digits |-> DefaultDigits],
     [key |-> "DOP", alpha_3 |-> Str(<<"D","O","P">>), numeric |-> Str(<<"2","1","4">>), digits |-> DefaultDigits],
     [key |-> "DZD", alpha_3 |-> Str(<<"D","Z","D">>), numeric |-> Str(<<"0","1","2">>), digits |-> DefaultDigits],
     [key |-> "EGP", alpha_3 |-> Str(<<"E","G","P">>), numeric |-> Str(<<"8","1","8">>), digits |-> DefaultDigits],
     [key |-> "ERN", alpha_3 |-> Str(<<"E","R","N">>), numeric |-> Str(<<"2","3","2">>), digits |-> DefaultDigits],
     [key |-> "ETB", alpha_3 |-> Str(<<"E","T","B">>), numeric |-> Str(<<"2","3","0">>), digits |-> DefaultDigits],
     [key |-> "EUR", alpha_3 |-> Str(<<"E","U","R">>), numeric |-> Str(<<"9","7","8">>), digits |-> DefaultDigits],
     [key |-> "FJD", alpha_3 |-> Str(<<"F","J","D">>), numeric |-> Str(<<"2","4","2">>), digits |-> DefaultDigits],
     [key |-> "FKP", alpha_3 |-> Str(<<"F","K","P">>), numeric |-> Str(<<"2","3","8">>), digits |-> DefaultDigits],
     [key |-> "GBP", alpha_3 |-> Str(<<"G","B","P">>), numeric |-> Str(<<"8","2","6">>), digits |-> DefaultDigits],
     [key |-> "GEL", alpha_3 |-> Str(<<"G","E","L">>), numeric |-> Str(<<"9","8","1">>), digits |-> DefaultDigits],
     [key |-> "GHS", alpha_3 |-> Str(<<"G","H","S">>), numeric |-> Str(<<"9","3","6">>), digits |-> DefaultDigits],
     [key |-> "GIP", alpha_3 |-> Str(<<"G","I","P">>), numeric |-> Str(<<"2","9","2">>), digits |-> DefaultDigits],
     [key |-> "GMD", alpha_3 |-> Str(<<"G","M","D">>), numeric |-> Str(<<"2","7","0">>), digits |-> DefaultDigits],
     [key |-> "GNF", alpha_3 |-> Str(<<"G","N","F">>), numeric |-> Str(<<"3","2","4">>), digits |-> 0],
     [key |-> "GTQ", alpha_3 |-> Str(<<"G","T","Q">>), numeric |-> Str(<<"3","2","0">>), digits |-> DefaultDigits],
     [key |-> "GYD", alpha_3 |-> Str(<<"G","Y","D">>), numeric |-> Str(<<"3","2","8">>), digits |-> DefaultDigits],
     [key |-> "HKD", alpha_3 |-> Str(<<"H","K","D">>), numeric |-> Str(<<"3","4","4">>), digits |-> DefaultDigits],
     [key |-> "HNL", alpha_3 |-> Str(<<"H","N","L">>), numeric |-> Str(<<"3","4","0">>), digits |-> DefaultDigits],
     [key |-> "HRK", alpha_3 |-> Str(<<"H","R","K">>), numeric |-> Str(<<"1","9","1">>), digits |-> DefaultDigits],
     [key |-> "HTG", alpha_3 |-> Str(<<"H","T","G">>), numeric |-> Str(<<"3","3","2">>), digits |-> DefaultDigits],
     [key |-> "HUF", alpha_3 |-> Str(<<"H","U","F">>), numeric |-> Str(<<"3","4","8">>), digits |-> DefaultDigits],
     [key |-> "IDR", alpha_3 |-> Str(<<"I","D","R">>), numeric |-> Str(<<"3","6","0">>), digits |-> DefaultDigits],
     [key |-> "ILS", alpha_3 |-> Str(<<"I","L","S">>), numeric |-> Str(<<"3","7","6">>), digits |-> DefaultDigits],
     [key |-> "INR", alpha_3 |-> Str(<<"I","N","R">>), numeric |-> Str(<<"3","5","6">>), digits |-> DefaultDigits],
     [key |-> "IQD", alpha_3 |-> Str(<<"I","Q","D">>), numeric |-> Str(<<"3","6","8">>), digits |-> DefaultDigits],
     [key |-> "IRR", alpha_3 |-> Str(<<"I","R","R">>), numeric |-> Str(<<"3","6","4">>), digits |-> DefaultDigits],
     [key |-> "ISK", alpha_3 |-> Str(<<"I","S","K">>), numeric |-> Str(<<"3","5","2">>), digits |-> DefaultDigits],
     [key |-> "JMD", alpha_3 |-> Str(<<"J","M","D">>), numeric |-> Str(<<"3","8","8">>), digits |-> DefaultDigits],
     [key |-> "JOD", alpha_3 |-> Str(<<"J","O","D">>), numeric |-> Str(<<"4","0","0">>), digits |-> 3],
     [key |-> "JPY", alpha_3 |-> Str(<<"J","P","Y">>), numeric |-> Str(<<"3","9","2">>), digits |-> 0],
     [key |-> "KES", alpha_3 |-> Str(<<"K","E","S">>), numeric |-> Str(<<"4","0","4">>), digits |-> DefaultDigits],
     [key |-> "KGS", alpha_3 |-> Str(<<"K","G","S">>), numeric |-> Str(<<"4","1","7">>), digits |-> DefaultDigits],
     [key |-> "KHR", alpha_3 |-> Str(<<"K","H","R">>), numeric |-> Str(<<"1","1","6">>), digits |-> DefaultDigits],
     [key |-> "KMF", alpha_3 |-> Str(<<"K","M","F">>), numeric |-> Str(<<"1","7","4">>), digits |-> 0],
     [key |-> "KPW", alpha_3 |-> Str(<<"K","P","W">>), numeric |-> Str(<<"4","0","8">>), digits |-> DefaultDigits],
     [key |-> "KRW", alpha_3 |-> Str(<<"K","R","W">>), numeric |-> Str(<<"4","1","0">>), digits |-> 0],
     [key |-> "KWD", alpha_3 |-> Str(<<"K","W","D">>), numeric |-> Str(<<"4","1","4">>), digits |-> 3],
     [key |-> "KYD", alpha_3 |-> Str(<<"K","Y","D">>), numeric |-> Str(<<"1","3","6">>), digits |-> DefaultDigits],
     [key |-> "KZT", alpha_3 |-> Str(<<"K","Z","T">>), numeric |-> Str(<<"3","9","8">>), digits |-> DefaultDigits],
     [key |-> "LAK", alpha_3 |-> Str(<<"L","A","K">>), numeric |-> Str(<<"4","1","8">>), digits |-> DefaultDigits],
     [key |-> "LBP", alpha_3 |-> Str(<<"L","B","P">>), numeric |-> Str(<<"4","2","2">>), digits |-> DefaultDigits],
     [key |-> "LKR", alpha_3 |-> Str(<<"L","K","R">>), numeric |-> Str(<<"1","4","4">>), digits |-> DefaultDigits],
     [key |-> "LRD", alpha_3 |-> Str(<<"L","R","D">>), numeric |-> Str(<<"4","3","0">>), digits |-> DefaultDigits],
     [key |-> "LSL", alpha_3 |-> Str(<<"L","S","L">>), numeric |-> Str(<<"4","2","6">>), digits |-> DefaultDigits],
     [key |-> "LYD", alpha_3 |-> Str(<<"L","Y","D">>), numeric |-> Str(<<"4","3","4">>), digits |-> DefaultDigits],
     [key |-> "MAD", alpha_3 |-> Str(<<"M","A","D">>), numeric |-> Str(<<"5","0","4">>), digits |-> DefaultDigits],
     [key |-> "MDL", alpha_3 |-> Str(<<"M","D","L">>), numeric |-> Str(<<"4","9","8">>), digits |-> DefaultDigits],
     [key |-> "MGA", alpha_3 |-> Str(<<"M","G","A">>), numeric |-> Str(<<"9","6","9">>), digits |-> 0],
     [key |-> "MKD", alpha_3 |-> Str(<<"M","K","D">>), numeric |-> Str(<<"8","0","7">>), digits |-> DefaultDigits],
     [key |-> "MMK", alpha_3 |-> Str(<<"M","M","K">>), numeric |-> Str(<<"1","0","4">>), digits |-> DefaultDigits],
     [key |-> "MNT", alpha_3 |-> Str(<<"M","N","T">>), numeric |-> Str(<<"4","9","6">>), digits |-> DefaultDigits],
     [key |-> "MOP", alpha_3 |-> Str(<<"M","O","P">>), numeric |-> Str(<<"4","4","6">>), digits |-> DefaultDigits],
     [key |-> "MRU", alpha_3 |-> Str(<<"M","R","U">>), numeric |-> Str(<<"9","2","9">>), digits |-> DefaultDigits],
     [key |-> "MUR", alpha_3 |-> Str(<<"M","U","R">>), numeric |-> Str(<<"4","8","0">>), digits |-> DefaultDigits],
     [key |-> "MVR", alpha_3 |-> Str(<<"M","V","R">>), numeric |-> Str(<<"4","6","2">>), digits |-> DefaultDigits],
     [key |-> "MWK", alpha_3 |-> Str(<<"M","W","K">>), numeric |-> Str(<<"4","5","4">>), digits |-> DefaultDigits],
     [key |-> "MXN", alpha_3 |-> Str(<<"M","X","N">>), numeric |-> Str(<<"4","8","4">>), digits |-> DefaultDigits],
     [key |-> "MXV", alpha_3 |-> Str(<<"M","X","V">>), numeric |-> Str(<<"9","7","9">>), digits |-> DefaultDigits],
     [key |-> "MYR", alpha_3 |-> Str(<<"M","Y","R">>), numeric |-> Str(<<"4","5","8">>), digits |-> DefaultDigits],
     [key |-> "MZN", alpha_3 |-> Str(<<"M","Z","N">>), numeric |-> Str(<<"9","4","3">>), digits |-> DefaultDigits],
     [key |-> "NAD", alpha_3 |-> Str(<<"N","A","D">>), numeric |-> Str(<<"5","1","6">>), digits |-> DefaultDigits],
     [key |-> "NGN", alpha_3 |-> Str(<<"N","G","N">>), numeric |-> Str(<<"5","6","6">>), digits |-> DefaultDigits],
     [key |-> "NIO", alpha_3 |-> Str(<<"N","I","O">>), numeric |-> Str(<<"5","5","8">>), digits |-> DefaultDigits],
     [key |-> "NOK", alpha_3 |-> Str(<<"N","O","K">>), numeric |-> Str(<<"5","7","8">>), digits |-> DefaultDigits],
     [key |-> "NPR", alpha_3 |-> Str(<<"N","P","R">>), numeric |-> Str(<<"5","2","4">>), digits |-> DefaultDigits],
     [key |-> "NZD", alpha_3 |-> Str(<<"N","Z","D">>), numeric |-> Str(<<"5","5","4">>), digits |-> DefaultDigits],
     [key |-> "OMR", alpha_3 |-> Str(<<"O","M","R">>), numeric |-> Str(<<"5","1","2">>), digits |-> 3],
     [key |-> "PAB", alpha_3 |-> Str(<<"P","A","B">>), numeric |-> Str(<<"5","9","0">>), digits |-> DefaultDigits],
     [key |-> "PEN", alpha_3 |-> Str(<<"P","E","N">>), numeric |-> Str(<<"6","0","4">>), digits |-> DefaultDigits],
     [key |-> "PGK", alpha_3 |-> Str(<<"P","G","K">>), numeric |-> Str(<<"5","9","8">>), digits |-> DefaultDigits],
     [key |-> "PHP", alpha_3 |-> Str(<<"P","H","P">>), numeric |-> Str(<<"6","0","8">>), digits |-> DefaultDigits],
     [key |-> "PKR", alpha_3 |-> Str(<<"P","K","R">>), numeric |-> Str(<<"5","8","6">>), digits |-> DefaultDigits],
     [key |-> "PLN", alpha_3 |-> Str(<<"P","L","N">>), numeric |-> Str(<<"9","8","5">>), digits |-> DefaultDigits],
     [key |-> "PYG", alpha_3 |-> Str(<<"P","Y","G">>), numeric |-> Str(<<"6","0","0">>), digits |-> 0],
     [key |-> "QAR", alpha_3 |-> Str(<<"Q","A","R">>), numeric |-> Str(<<"6","3","4">>), digits |-> DefaultDigits],
     [key |-> "RON", alpha_3 |-> Str(<<"R","O","N">>), numeric |-> Str(<<"9","4","6">>), digits |-> DefaultDigits],
     [key |-> "RSD", alpha_3 |-> Str(<<"R","S","D">>), numeric |-> Str(<<"9","4","1">>), digits |-> DefaultDigits],
     [key |-> "RUB", alpha_3 |-> Str(<<"R","U","B">>), numeric |-> Str(<<"6","4","3">>), digits |-> DefaultDigits],
     [key |-> "RWF", alpha_3 |-> Str(<<"R","W","F">>), numeric |-> Str(<<"6","4","6">>), digits |-> 0],
     [key |-> "SAR", alpha_3 |-> Str(<<"S","A","R">>), numeric |-> Str(<<"6","8","2">>), digits |-> DefaultDigits],
     [key |-> "SBD", alpha_3 |-> Str(<<"S","B","D">>), numeric |-> Str(<<"0","9","0">>), digits |-> DefaultDigits],
     [key |-> "SCR", alpha_3 |-> Str(<<"S","C","R">>), numeric |-> Str(<<"6","9","0">>), digits |-> DefaultDigits],
     [key |-> "SDG", alpha_3 |-> Str(<<"S","D","G">>), numeric |-> Str(<<"9","3","8">>), digits |-> DefaultDigits],
     [key |-> "SEK", alpha_3 |-> Str(<<"S","E","K">>), numeric |-> Str(<<"7","5","2">>), digits |-> DefaultDigits],
     [key |-> "SGD", alpha_3 |-> Str(<<"S","G","D">>), numeric |-> Str(<<"7","0","2">>), digits |-> DefaultDigits],
     [key |-> "SHP", alpha_3 |-> Str(<<"S","H","P">>), numeric |-> Str(<<"6","5","4">>), digits |-> DefaultDigits],
     [key |-> "SLE", alpha_3 |-> Str(<<"S","L","E">>), numeric |-> Str(<<"9","2","5">>), digits |-> DefaultDigits],
     [key |-> "SLL", alpha_3 |-> Str(<<"S","L","L">>), numeric |-> Str(<<"6","9","4">>), digits |-> DefaultDigits],
     [key |-> "SOS", alpha_3 |-> Str(<<"S","O","S">>), numeric |-> Str(<<"7","0","6">>), digits |-> DefaultDigits],
     [key |-> "SRD", alpha_3 |-> Str(<<"S","R","D">>), numeric |-> Str(<<"9","6","8">>), digits |-> DefaultDigits],
     [key |-> "SSP", alpha_3 |-> Str(<<"S","S","P">>), numeric |-> Str(<<"7","2","8">>), digits |-> DefaultDigits],
     [key |-> "STN", alpha_3 |-> Str(<<"S","T","N">>), numeric |-> Str(<<"9","3","0">>), digits |-> DefaultDigits],
     [key |-> "SVC", alpha_3 |-> Str(<<"S","V","C">>), numeric |-> Str(<<"2","2","2">>), digits |-> DefaultDigits],
     [key |-> "SYP", alpha_3 |-> Str(<<"S","Y","P">>), numeric |-> Str(<<"7","6","0">>), digits |-> DefaultDigits],
     [key |-> "SZL", alpha_3 |-> Str(<<"S","Z","L">>), numeric |-> Str(<<"7","4","8">>), digits |-> DefaultDigits],
     [key |-> "THB", alpha_3 |-> Str(<<"T","H","B">>), numeric |-> Str(<<"7","6","4">>), digits |-> DefaultDigits],
     [key |-> "TJS", alpha_3 |-> Str(<<"T","J","S">>), numeric |-> Str(<<"9","7","2">>), digits |-> DefaultDigits],
     [key |-> "TMT", alpha_3 |-> Str(<<"T","M","T">>), numeric |-> Str(<<"9","3","4">>), digits |-> DefaultDigits],
     [key |-> "TND", alpha_3 |-> Str(<<"T","N","D">>), numeric |-> Str(<<"7","8","8">>), digits |-> 3],
     [key |-> "TOP", alpha_3 |-> Str(<<"T","O","P">>), numeric |-> Str(<<"7","7","6">>), digits |-> DefaultDigits],
     [key |-> "TRY", alpha_3 |-> Str(<<"T","R","Y">>), numeric |-> Str(<<"9","4","9">>), digits |-> DefaultDigits],
     [key |-> "TTD", alpha_3 |-> Str(<<"T","T","D">>), numeric |-> Str(<<"7","8","0">>), digits |-> DefaultDigits],
     [key |-> "TWD", alpha_3 |-> Str(<<"T","W","D">>), numeric |-> Str(<<"9","0","1">>), digits |-> DefaultDigits],
     [key |-> "TZS", alpha_3 |-> Str(<<"T","Z","S">>), numeric |-> Str(<<"8","3","4">>), digits |-> DefaultDigits],
     [key |-> "UAH", alpha_3 |-> Str(<<"U","A","H">>), numeric |-> Str(<<"9","8","0">>), digits |-> DefaultDigits],
     [key |-> "UGX", alpha_3 |-> Str(<<"U","G","X">>), numeric |-> Str(<<"8","0","0">>), digits |-> 0],
     [key |-> "USD", alpha_3 |-> Str(<<"U","S","D">>), numeric |-> Str(<<"8","4","0">>), digits |-> DefaultDigits],
     [key |-> "USN", alpha_3 |-> Str(<<"U","S","N">>), numeric |-> Str(<<"9","9","7">>), digits |-> DefaultDigits],
     [key |-> "UYI", alpha_3 |-> Str(<<"U","Y","I">>), numeric |-> Str(<<"9","4","0">>), digits |-> DefaultDigits],
     [key |-> "UYU", alpha_3 |-> Str(<<"U","Y","U">>), numeric |-> Str(<<"8","5","8">>), digits |-> DefaultDigits],
     [key |-> "UYW", alpha_3 |-> Str(<<"U","Y","W">>), numeric |-> Str(<<"9","2","7">>), digits |-> DefaultDigits],
     [key |-> "UZS", alpha_3 |-> Str(<<"U","Z","S">>), numeric |-> Str(<<"8","6","0">>), digits |-> DefaultDigits],
     [key |-> "VED", alpha_3 |-> Str(<<"V","E","D">>), numeric |-> Str(<<"9","2","6">>), digits |-> DefaultDigits],
     [key |-> "VES", alpha_3 |-> Str(<<"V","E","S">>), numeric |-> Str(<<"9","2","8">>), digits |-> DefaultDigits],
     [key |-> "VND", alpha_3 |-> Str(<<"V","N","D">>), numeric |-> Str(<<"7","0","4">>), digits |-> 0],
     [key |-> "VUV", alpha_3 |-> Str(<<"V","U","V">>), numeric |-> Str(<<"5","4","8">>), digits |-> 0],
     [key |-> "WST", alpha_3 |-> Str(<<"W","S","T">>), numeric |-> Str(<<"8","8","2">>), digits |-> DefaultDigits],
     [key |-> "XAF", alpha_3 |-> Str(<<"X","A","F">>), numeric |-> Str(<<"9","5","0">>), digits |-> 0],
     [key |-> "XAG", alpha_3 |-> Str(<<"X","A","G">>), numeric |-> Str(<<"9","6","1">>), digits |-> DefaultDigits],
     [key |-> "XAU", alpha_3 |-> Str(<<"X","A","U">>), numeric |-> Str(<<"9","5","9">>), digits |-> DefaultDigits],
     [key |-> "XBA", alpha_3 |-> Str(<<"X","B","A">>), numeric |-> Str(<<"9","5","5">>), digits |-> DefaultDigits],
     [key |-> "XBB", alpha_3 |-> Str(<<"X","B","B">>), numeric |-> Str(<<"9","5","6">>), digits |-> DefaultDigits],
     [key |-> "XBC", alpha_3 |-> Str(<<"X","B","C">>), numeric |-> Str(<<"9","5","7">>), digits |-> DefaultDigits],
     [key |-> "XBD", alpha_3 |-> Str(<<"X","B","D">>), numeric |-> Str(<<"9","5","8">>), digits |-> DefaultDigits],
     [key |-> "XCD", alpha_3 |-> Str(<<"X","C","D">>), numeric |-> Str(<<"9","5","1">>), digits |-> DefaultDigits],
     [key |-> "XDR", alpha_3 |-> Str(<<"X","D","R">>), numeric |-> Str(<<"9","6","0">>), digits |-> DefaultDigits],
     [key |-> "XOF", alpha_3 |-> Str(<<"X","O","F">>), numeric |-> Str(<<"9","5","2">>), digits |-> 0],
     [key |-> "XPD", alpha_3 |-> Str(<<"X","P","D">>), numeric |-> Str(<<"9","6","4">>), digits |-> DefaultDigits],
     [key |-> "XPF", alpha_3 |-> Str(<<"X","P","F">>), numeric |-> Str(<<"9","5","3">>), digits |-> 0],
     [key |-> "XPT", alpha_3 |-> Str(<<"X","P","T">>), numeric |-> Str(<<"9","6","2">>), digits |-> DefaultDigits],
     [key |-> "XSU", alpha_3 |-> Str(<<"X","S","U">>), numeric |-> Str(<<"9","9","4">>), digits |-> DefaultDigits],
     [key |-> "XTS", alpha_3 |-> Str(<<"X","T","S">>), numeric |-> Str(<<"9","6","3">>), digits |-> DefaultDigits],
     [key |-> "XUA", alpha_3 |-> Str(<<"X","U","A">>), numeric |-> Str(<<"9","6","5">>), digits |-> DefaultDigits],
     [key |-> "XXX", alpha_3 |-> Str(<<"X","X","X">>), numeric |-> Str(<<"9","9","9">>), digits |-> DefaultDigits],
     [key |-> "YER", alpha_3 |-> Str(<<"Y","E","R">>), numeric |-> Str(<<"8","8","6">>), digits |-> DefaultDigits],
     [key |-> "ZAR", alpha_3 |-> Str(<<"Z","A","R">>), numeric |-> Str(<<"7","1","0">>), digits |-> DefaultDigits],
     [key |-> "ZMW", alpha_3 |-> Str(<<"Z","M","W">>), numeric |-> Str(<<"9","6","7">>), digits |-> DefaultDigits],
     [key |-> "ZWL", alpha_3 |-> Str(<<"Z","W","L">>), numeric |-> Str(<<"9","3","2">>), digits |-> DefaultDigits] >>

LanguageDecls ==
  << [key |-> "AAR", alpha_2 |-> Str(<<"a","a">>), alpha_3 |-> Str(<<"a","a","r">>), bibliographic |-> None, terminology |-> Str(<<"a","a","r">>)],
     [key |-> "ABK", alpha_2 |-> Str(<<"a","b">>), alpha_3 |-> Str(<<"a","b","k">>), bibliographic |-> None, terminology |-> Str(<<"a","b","k">>)],
     [key |-> "ACE", alpha_2 |-> None, alpha_3 |-> Str(<<"a","c","e">>), bibliographic |-> None, terminology |-> Str(<<"a","c","e">>)],
     [key |-> "ACH", alpha_2 |-> None, alpha_3 |-> Str(<<"a","c","h">>), bibliographic |-> None, terminology |-> Str(<<"a","c","h">>)],
     [key |-> "ADA", alpha_2 |-> None, alpha_3 |-> Str(<<"a","d","a">>), bibliographic |-> None, terminology |-> Str(<<"a","d","a">>)],
     [key |-> "ADY", alpha_2 |-> None, alpha_3 |-> Str(<<"a","d","y">>), bibliographic |-> None, terminology |-> Str(<<"a","d","y">>)],
     [key |-> "AFA", alpha_2 |-> None, alpha_3 |-> Str(<<"a","f","a">>), bibliographic |-> None, terminology |-> Str(<<"a","f","a">>)],
     [key |-> "AFH", alpha_2 |-> None, alpha_3 |-> Str(<<"a","f","h">>), bibliographic |-> None, terminology |-> Str(<<"a","f","h">>)],
     [key |-> "AFR", alpha_2 |-> Str(<<"a","f">>), alpha_3 |-> Str(<<"a","f","r">>), bibliographic |-> None, terminology |-> Str(<<"a","f","r">>)],
     [key |-> "AIN", alpha_2 |-> None, alpha_3 |-> Str(<<"a","i","n">>), bibliographic |-> None, terminology |-> Str(<<"a","i","n">>)],
     [key |-> "AKA", alpha_2 |-> Str(<<"a","k">>), alpha_3 |-> Str(<<"a","k","a">>), bibliographic |-> None, terminology |-> Str(<<"a","k","a">>)],
     [key |-> "AKK", alpha_2 |-> None, alpha_3 |-> Str(<<"a","k","k">>), bibliographic |-> None, terminology |-> Str(<<"a","k","k">>)],
     [key |-> "ALB", alpha_2 |-> Str(<<"s","q">>), alpha_3 |-> Str(<<"a","l","b">>), bibliographic |-> Str(<<"a","l","b">>), terminology |-> Str(<<"s","q","i">>)],
     [key |-> "SQI", alpha_2 |-> Str(<<"s","q">>), alpha_3 |-> Str(<<"s","q","i">>), bibliographic |-> Str(<<"a","l","b">>), terminology |-> Str(<<"s","q","i">>)],
     [key |-> "ALE", alpha_2 |-> None, alpha_3 |-> Str(<<"a","l","e">>), bibliographic |-> None, terminology |-> Str(<<"a","l","e">>)],
     [key |-> "ALG", alpha_2 |-> None, alpha_3 |-> Str(<<"a","l","g">>), bibliographic |-> None, terminology |-> Str(<<"a","l","g">>)],
     [key |-> "ALT", alpha_2 |-> None, alpha_3 |-> Str(<<"a","l","t">>), bibliographic |-> None, terminology |-> Str(<<"a","l","t">>)],
     [key |-> "AMH", alpha_2 |-> Str(<<"a","m">>), alpha_3 |-> Str(<<"a","m","h">>), bibliographic |-> None, terminology |-> Str(<<"a","m","h">>)],
     [key |-> "ANG", alpha_2 |-> None, alpha_3 |-> Str(<<"a","n","g">>), bibliographic |-> None, terminology |-> Str(<<"a","n","g">>)],
     [key |-> "ANP", alpha_2 |-> None, alpha_3 |-> Str(<<"a","n","p">>), bibliographic |-> None, terminology |-> Str(<<"a","n","p">>)],
     [key |-> "APA", alpha_2 |-> None, alpha_3 |-> Str(<<"a","p","a">>), bibliographic |-> None, terminology |-> Str(<<"a","p","a">>)],
     [key |-> "ARA", alpha_2 |-> Str(<<"a","r">>), alpha_3 |-> Str(<<"a","r","a">>), bibliographic |-> None, terminology |-> Str(<<"a","r","a">>)],
     [key |-> "ARC", alpha_2 |-> None, alpha_3 |-> Str(<<"a","r","c">>), bibliographic |-> None, terminology |-> Str(<<"a","r","c">>)],
     [key |-> "ARG", alpha_2 |-> Str(<<"a","n">>), alpha_3 |-> Str(<<"a","r","g">>), bibliographic |-> None, terminology |-> Str(<<"a","r","g">>)],
     [key |-> "ARM", alpha_2 |-> Str(<<"h","y">>), alpha_3 |-> Str(<<"a","r","m">>), bibliographic |-> Str(<<"a","r","m">>), terminology |-> Str(<<"h","y","e">>)],
     [key |-> "HYE", alpha_2 |-> Str(<<"h","y">>), alpha_3 |-> Str(<<"h","y","e">>), bibliographic |-> Str(<<"a","r","m">>), terminology |-> Str(<<"h","y","e">>)],
     [key |-> "ARN", alpha_2 |-> None, alpha_3 |-> Str(<<"a","r","n">>), bibliographic |-> None, terminology |-> Str(<<"a","r","n">>)],
     [key |-> "ARP", alpha_2 |-> None, alpha_3 |-> Str(<<"a","r","p">>), bibliographic |-> None, terminology |-> Str(<<"a","r","p">>)],
     [key |-> "ART", alpha_2 |-> None, alpha_3 |-> Str(<<"a","r","t">>), bibliographic |-> None, terminology |-> Str(<<"a","r","t">>)],
     [key |-> "ARW", alpha_2 |-> None, alpha_3 |-> Str(<<"a","r","w">>), bibliographic |-> None, terminology |-> Str(<<"a","r","w">>)],
     [key |-> "ASM", alpha_2 |-> Str(<<"a","s">>), alpha_3 |-> Str(<<"a","s","m">>), bibliographic |-> None, terminology |-> Str(<<"a","s","m">>)],
     [key |-> "AST", alpha_2 |-> None, alpha_3 |-> Str(<<"a","s","t">>), bibliographic |-> None, terminology |-> Str(<<"a","s","t">>)],
     [key |-> "ATH", alpha_2 |-> None, alpha_3 |-> Str(<<"a","t","h">>), bibliographic |-> None, terminology |-> Str(<<"a","t","h">>)],
     [key |-> "AUS", alpha_2 |-> None, alpha_3 |-> Str(<<"a","u","s">>), bibliographic |-> None, terminology |-> Str(<<"a","u","s">>)],
     [key |-> "AVA", alpha_2 |-> Str(<<"a","v">>), alpha_3 |-> Str(<<"a","v","a">>), bibliographic |-> None, terminology |-> Str(<<"a","v","a">>)],
     [key |-> "AVE", alpha_2 |-> Str(<<"a","e">>), alpha_3 |-> Str(<<"a","v","e">>), bibliographic |-> None, terminology |-> Str(<<"a","v","e">>)],
     [key |-> "AWA", alpha_2 |-> None, alpha_3 |-> Str(<<"a","w","a">>), bibliographic |-> None, terminology |-> Str(<<"a","w","a">>)],
     [key |-> "AYM", alpha_2 |-> Str(<<"a","y">>), alpha_3 |-> Str(<<"a","y","m">>), bibliographic |-> None, terminology |-> Str(<<"a","y","m">>)],
     [key |-> "AZE", alpha_2 |-> Str(<<"a","z">>), alpha_3 |-> Str(<<"a","z","e">>), bibliographic |-> None, terminology |-> Str(<<"a","z","e">>)],
     [key |-> "BAD", alpha_2 |-> None, alpha_3 |-> Str(<<"b","a","d">>), bibliographic |-> None, terminology |-> Str(<<"b","a","d">>)],
     [key |-> "BAI", alpha_2 |-> None, alpha_3 |-> Str(<<"b","a","i">>), bibliographic |-> None, terminology |-> Str(<<"b","a","i">>)],
     [key |-> "BAK", alpha_2 |-> Str(<<"b","a">>), alpha_3 |-> Str(<<"b","a","k">>), bibliographic |-> None, terminology |-> Str(<<"b","a","k">>)],
     [key |-> "BAL", alpha_2 |-> None, alpha_3 |-> Str(<<"b","a","l">>), bibliographic |-> None, terminology |-> Str(<<"b","a","l">>)],
     [key |-> "BAM", alpha_2 |-> Str(<<"b","m">>), alpha_3 |-> Str(<<"b","a","m">>), bibliographic |-> None, terminology |-> Str(<<"b","a","m">>)],
     [key |-> "BAN", alpha_2 |-> None, alpha_3 |-> Str(<<"b","a","n">>), bibliographic |-> None, terminology |-> Str(<<"b","a","n">>)],
     [key |-> "BAQ", alpha_2 |-> Str(<<"e","u">>), alpha_3 |-> Str(<<"b","a","q">>), bibliographic |-> Str(<<"b","a","q">>), terminology |-> Str(<<"e","u","s">>)],
     [key |-> "EUS", alpha_2 |-> Str(<<"e","u">>), alpha_3 |-> Str(<<"e","u","s">>), bibliographic |-> Str(<<"b","a","q">>), terminology |-> Str(<<"e","u","s">>)],
     [key |-> "BAS", alpha_2 |-> None, alpha_3 |-> Str(<<"b","a","s">>), bibliographic |-> None, terminology |-> Str(<<"b","a","s">>)],
     [key |-> "BAT", alpha_2 |-> None, alpha_3 |-> Str(<<"b","a","t">>), bibliographic |-> None, terminology |-> Str(<<"b","a","t">>)],
     [key |-> "BEJ", alpha_2 |-> None, alpha_3 |-> Str(<<"b","e","j">>), bibliographic |-> None, terminology |-> Str(<<"b","e","j">>)],
     [key |-> "BEL", alpha_2 |-> Str(<<"b","e">>), alpha_3 |-> Str(<<"b","e","l">>), bibliographic |-> None, terminology |-> Str(<<"b","e","l">>)],
     [key |-> "BEM", alpha_2 |-> None, alpha_3 |-> Str(<<"b","e","m">>), bibliographic |-> None, terminology |-> Str(<<"b","e","m">>)],
     [key |-> "BEN", alpha_2 |-> Str(<<"b","n">>), alpha_3 |-> Str(<<"b","e","n">>), bibliographic |-> None, terminology |-> Str(<<"b","e","n">>)],
     [key |-> "BER", alpha_2 |-> None, alpha_3 |-> Str(<<"b","e","r">>), bibliographic |-> None, terminology |-> Str(<<"b","e","r">>)],
     [key |-> "BHO", alpha_2 |-> None, alpha_3 |-> Str(<<"b","h","o">>), bibliographic |-> None, terminology |-> Str(<<"b","h","o">>)],
     [key |-> "BIH", alpha_2 |-> Str(<<"b","h">>), alpha_3 |-> Str(<<"b","i","h">>), bibliographic |-> None, terminology |-> Str(<<"b","i","h">>)],
     [key |-> "BIK", alpha_2 |-> None, alpha_3 |-> Str(<<"b","i","k">>), bibliographic |-> None, terminology |-> Str(<<"b","i","k">>)],
     [key |-> "BIN", alpha_2 |-> None, alpha_3 |-> Str(<<"b","i","n">>), bibliographic |-> None, terminology |-> Str(<<"b","i","n">>)],
     [key |-> "BIS", alpha_2 |-> Str(<<"b","i">>), alpha_3 |-> Str(<<"b","i","s">>), bibliographic |-> None, terminology |-> Str(<<"b","i","s">>)],
     [key |-> "BLA", alpha_2 |-> None, alpha_3 |-> Str(<<"b","l","a">>), bibliographic |-> None, terminology |-> Str(<<"b","l","a">>)],
     [key |-> "BNT", alpha_2 |-> None, alpha_3 |-> Str(<<"b","n","t">>), bibliographic |-> None, terminology |-> Str(<<"b","n","t">>)],
     [key |-> "TIB", alpha_2 |-> Str(<<"b","o">>), alpha_3 |-> Str(<<"t","i","b">>), bibliographic |-> Str(<<"t","i","b">>), terminology |-> Str(<<"b","o","d">>)],
     [key |-> "BOD", alpha_2 |-> Str(<<"b","o">>), alpha_3 |-> Str(<<"b","o","d">>), bibliographic |-> Str(<<"t","i","b">>), terminology |-> Str(<<"b","o","d">>)],
     [key |-> "BOS", alpha_2 |-> Str(<<"b","s">>), alpha_3 |-> Str(<<"b","o","s">>), bibliographic |-> None, terminology |-> Str(<<"b","o","s">>)],
     [key |-> "BRA", alpha_2 |-> None, alpha_3 |-> Str(<<"b","r","a">>), bibliographic |-> None, terminology |-> Str(<<"b","r","a">>)],
     [key |-> "BRE", alpha_2 |-> Str(<<"b","r">>), alpha_3 |-> Str(<<"b","r","e">>), bibliographic |-> None, terminology |-> Str(<<"b","r","e">>)],
     [key |-> "BTK", alpha_2 |-> None, alpha_3 |-> Str(<<"b","t","k">>), bibliographic |-> None, terminology |-> Str(<<"b","t","k">>)],
     [key |-> "BUA", alpha_2 |-> None, alpha_3 |-> Str(<<"b","u","a">>), bibliographic |-> None, terminology |-> Str(<<"b","u","a">>)],
     [key |-> "BUG", alpha_2 |-> None, alpha_3 |-> Str(<<"b","u","g">>), bibliographic |-> None, terminology |-> Str(<<"b","u","g">>)],
     [key |-> "BUL", alpha_2 |-> Str(<<"b","g">>), alpha_3 |-> Str(<<"b","u","l">>), bibliographic |-> None, terminology |-> Str(<<"b","u","l">>)],
     [key |-> "BUR", alpha_2 |-> Str(<<"m","y">>), alpha_3 |-> Str(<<"b","u","r">>), bibliographic |-> Str(<<"b","u","r">>), terminology |-> Str(<<"m","y","a">>)],
     [key |-> "MYA", alpha_2 |-> Str(<<"m","y">>), alpha_3 |-> Str(<<"m","y","a">>), bibliographic |-> Str(<<"b","u","r">>), terminology |-> Str(<<"m","y","a">>)],
     [key |-> "BYN", alpha_2 |-> None, alpha_3 |-> Str(<<"b","y","n">>), bibliographic |-> None, terminology |-> Str(<<"b","y","n">>)],
     [key |-> "CAD", alpha_2 |-> None, alpha_3 |-> Str(<<"c","a","d">>), bibliographic |-> None, terminology |-> Str(<<"c","a","d">>)],
     [key |-> "CAI", alpha_2 |-> None, alpha_3 |-> Str(<<"c","a","i">>), bibliographic |-> None, terminology |-> Str(<<"c","a","i">>)],
     [key |-> "CAR", alpha_2 |-> None, alpha_3 |-> Str(<<"c","a","r">>), bibliographic |-> None, terminology |-> Str(<<"c","a","r">>)],
     [key |-> "CAT", alpha_2 |-> Str(<<"c","a">>), alpha_3 |-> Str(<<"c","a","t">>), bibliographic |-> None, terminology |-> Str(<<"c","a","t">>)],
     [key |-> "CAU", alpha_2 |-> None, alpha_3 |-> Str(<<"c","a","u">>), bibliographic |-> None, terminology |-> Str(<<"c","a","u">>)],
     [key |-> "CEB", alpha_2 |-> None, alpha_3 |-> Str(<<"c","e","b">>), bibliographic |-> None, terminology |-> Str(<<"c","e","b">>)],
     [key |-> "CEL", alpha_2 |-> None, alpha_3 |-> Str(<<"c","e","l">>), bibliographic |-> None, terminology |-> Str(<<"c","e","l">>)],
     [key |-> "CZE", alpha_2 |-> Str(<<"c","s">>), alpha_3 |-> Str(<<"c","z","e">>), bibliographic |-> Str(<<"c","z","e">>), terminology |-> Str(<<"c","e","s">>)],
     [key |-> "CES", alpha_2 |-> Str(<<"c","s">>), alpha_3 |-> Str(<<"c","e","s">>), bibliographic |-> Str(<<"c","z","e">>), terminology |-> Str(<<"c","e","s">>)],
     [key |-> "CHA", alpha_2 |-> Str(<<"c","h">>), alpha_3 |-> Str(<<"c","h","a">>), bibliographic |-> None, terminology |-> Str(<<"c","h","a">>)],
     [key |-> "CHB", alpha_2 |-> None, alpha_3 |-> Str(<<"c","h","b">>), bibliographic |-> None, terminology |-> Str(<<"c","h","b">>)],
     [key |-> "CHE", alpha_2 |-> Str(<<"c","e">>), alpha_3 |-> Str(<<"c","h","e">>), bibliographic |-> None, terminology |-> Str(<<"c","h","e">>)],
     [key |-> "CHG", alpha_2 |-> None, alpha_3 |-> Str(<<"c","h","g">>), bibliographic |-> None, terminology |-> Str(<<"c","h","g">>)],
     [key |-> "CHI", alpha_2 |-> Str(<<"z","h">>), alpha_3 |-> Str(<<"c","h","i">>), bibliographic |-> Str(<<"c","h","i">>), terminology |-> Str(<<"z","h","o">>)],
     [key |-> "ZHO", alpha_2 |-> Str(<<"z","h">>), alpha_3 |-> Str(<<"z","h","o">>), bibliographic |-> Str(<<"c","h","i">>), terminology |-> Str(<<"z","h","o">>)],
     [key |-> "CHK", alpha_2 |-> None, alpha_3 |-> Str(<<"c","h","k">>), bibliographic |-> None, terminology |-> Str(<<"c","h","k">>)],
     [key |-> "CHM", alpha_2 |-> None, alpha_3 |-> Str(<<"c","h","m">>), bibliographic |-> None, terminology |-> Str(<<"c","h","m">>)],
     [key |-> "CHN", alpha_2 |-> None, alpha_3 |-> Str(<<"c","h","n">>), bibliographic |-> None, terminology |-> Str(<<"c","h","n">>)],
     [key |-> "CHO", alpha_2 |-> None, alpha_3 |-> Str(<<"c","h","o">>), bibliographic |-> None, terminology |-> Str(<<"c","h","o">>)],
     [key |-> "CHP", alpha_2 |-> None, alpha_3 |-> Str(<<"c","h","p">>), bibliographic |-> None, terminology |-> Str(<<"c","h","p">>)],
     [key |-> "CHR", alpha_2 |-> None, alpha_3 |-> Str(<<"c","h","r">>), bibliographic |-> None, terminology |-> Str(<<"c","h","r">>)],
     [key |-> "CHU", alpha_2 |-> Str(<<"c","u">>), alpha_3 |-> Str(<<"c","h","u">>), bibliographic |-> None, terminology |-> Str(<<"c","h","u">>)],
     [key |-> "CHV", alpha_2 |-> Str(<<"c","v">>), alpha_3 |-> Str(<<"c","h","v">>), bibliographic |-> None, terminology |-> Str(<<"c","h","v">>)],
     [key |-> "CHY", alpha_2 |-> None, alpha_3 |-> Str(<<"c","h","y">>), bibliographic |-> None, terminology |-> Str(<<"c","h","y">>)],
     [key |-> "CMC", alpha_2 |-> None, alpha_3 |-> Str(<<"c","m","c">>), bibliographic |-> None, terminology |-> Str(<<"c","m","c">>)],
     [key |-> "CNR", alpha_2 |-> None, alpha_3 |-> Str(<<"c","n","r">>), bibliographic |-> None, terminology |-> Str(<<"c","n","r">>)],
     [key |-> "COP", alpha_2 |-> None, alpha_3 |-> Str(<<"c","o","p">>), bibliographic |-> None, terminology |-> Str(<<"c","o","p">>)],
     [key |-> "COR", alpha_2 |-> Str(<<"k","w">>), alpha_3 |-> Str(<<"c","o","r">>), bibliographic |-> None, terminology |-> Str(<<"c","o","r">>)],
     [key |-> "COS", alpha_2 |-> Str(<<"c","o">>), alpha_3 |-> Str(<<"c","o","s">>), bibliographic |-> None, terminology |-> Str(<<"c","o","s">>)],
     [key |-> "CPE", alpha_2 |-> None, alpha_3 |-> Str(<<"c","p","e">>), bibliographic |-> None, terminology |-> Str(<<"c","p","e">>)],
     [key |-> "CPF", alpha_2 |-> None, alpha_3 |-> Str(<<"c","p","f">>), bibliographic |-> None, terminology |-> Str(<<"c","p","f">>)],
     [key |-> "CPP", alpha_2 |-> None, alpha_3 |-> Str(<<"c","p","p">>), bibliographic |-> None, terminology |-> Str(<<"c","p","p">>)],
     [key |-> "CRE", alpha_2 |-> Str(<<"c","r">>), alpha_3 |-> Str(<<"c","r","e">>), bibliographic |-> None, terminology |-> Str(<<"c","r","e">>)],
     [key |-> "CRH", alpha_2 |-> None, alpha_3 |-> Str(<<"c","r","h">>), bibliographic |-> None, terminology |-> Str(<<"c","r","h">>)],
     [key |-> "CRP", alpha_2 |-> None, alpha_3 |-> Str(<<"c","r","p">>), bibliographic |-> None, terminology |-> Str(<<"c","r","p">>)],
     [key |-> "CSB", alpha_2 |-> None, alpha_3 |-> Str(<<"c","s","b">>), bibliographic |-> None, terminology |-> Str(<<"c","s","b">>)],
     [key |-> "CUS", alpha_2 |-> None, alpha_3 |-> Str(<<"c","u","s">>), bibliographic |-> None, terminology |-> Str(<<"c","u","s">>)],
     [key |-> "WEL", alpha_2 |-> Str(<<"c","y">>), alpha_3 |-> Str(<<"w","e","l">>), bibliographic |-> Str(<<"w","e","l">>), terminology |-> Str(<<"c","y","m">>)],
     [key |-> "CYM", alpha_2 |-> Str(<<"c","y">>), alpha_3 |-> Str(<<"c","y","m">>), bibliographic |-> Str(<<"w","e","l">>), terminology |-> Str(<<"c","y","m">>)],
     [key |-> "DAK", alpha_2 |-> None, alpha_3 |-> Str(<<"d","a","k">>), bibliographic |-> None, terminology |-> Str(<<"d","a","k">>)],
     [key |-> "DAN", alpha_2 |-> Str(<<"d","a">>), alpha_3 |-> Str(<<"d","a","n">>), bibliographic |-> None, terminology |-> Str(<<"d","a","n">>)],
     [key |-> "DAR", alpha_2 |-> None, alpha_3 |-> Str(<<"d","a","r">>), bibliographic |-> None, terminology |-> Str(<<"d","a","r">>)],
     [key |-> "DAY", alpha_2 |-> None, alpha_3 |-> Str(<<"d","a","y">>), bibliographic |-> None, terminology |-> Str(<<"d","a","y">>)],
     [key |-> "DEL", alpha_2 |-> None, alpha_3 |-> Str(<<"d","e","l">>), bibliographic |-> None, terminology |-> Str(<<"d","e","l">>)],
     [key |-> "DEN", alpha_2 |-> None, alpha_3 |-> Str(<<"d","e","n">>), bibliographic |-> None, terminology |-> Str(<<"d","e","n">>)],
     [key |-> "GER", alpha_2 |-> Str(<<"d","e">>), alpha_3 |-> Str(<<"g","e","r">>), bibliographic |-> Str(<<"g","e","r">>), terminology |-> Str(<<"d","e","u">>)],
     [key |-> "DEU", alpha_2 |-> Str(<<"d","e">>), alpha_3 |-> Str(<<"d","e","u">>), bibliographic |-> Str(<<"g","e","r">>), terminology |-> Str(<<"d","e","u">>)],
     [key |-> "DGR", alpha_2 |-> None, alpha_3 |-> Str(<<"d","g","r">>), bibliographic |-> None, terminology |-> Str(<<"d","g","r">>)],
     [key |-> "DIN", alpha_2 |-> None, alpha_3 |-> Str(<<"d","i","n">>), bibliographic |-> None, terminology |-> Str(<<"d","i","n">>)],
     [key |-> "DIV", alpha_2 |-> Str(<<"d","v">>), alpha_3 |-> Str(<<"d","i","v">>), bibliographic |-> None, terminology |-> Str(<<"d","i","v">>)],
     [key |-> "DOI", alpha_2 |-> None, alpha_3 |-> Str(<<"d","o","i">>), bibliographic |-> None, terminology |-> Str(<<"d","o","i">>)],
     [key |-> "DRA", alpha_2 |-> None, alpha_3 |-> Str(<<"d","r","a">>), bibliographic |-> None, terminology |-> Str(<<"d","r","a">>)],
     [key |-> "DSB", alpha_2 |-> None, alpha_3 |-> Str(<<"d","s","b">>), bibliographic |-> None, terminology |-> Str(<<"d","s","b">>)],
     [key |-> "DUA", alpha_2 |-> None, alpha_3 |-> Str(<<"d","u","a">>), bibliographic |-> None, terminology |-> Str(<<"d","u","a">>)],
     [key |-> "DUM", alpha_2 |-> None, alpha_3 |-> Str(<<"d","u","m">>), bibliographic |-> None, terminology |-> Str(<<"d","u","m">>)],
     [key |-> "DUT", alpha_2 |-> Str(<<"n","l">>), alpha_3 |-> Str(<<"d","u","t">>), bibliographic |-> Str(<<"d","u","t">>), terminology |-> Str(<<"n","l","d">>)],
     [key |-> "NLD", alpha_2 |-> Str(<<"n","l">>), alpha_3 |-> Str(<<"n","l","d">>), bibliographic |-> Str(<<"d","u","t">>), terminology |-> Str(<<"n","l","d">>)],
     [key |-> "DYU", alpha_2 |-> None, alpha_3 |-> Str(<<"d","y","u">>), bibliographic |-> None, terminology |-> Str(<<"d","y","u">>)],
     [key |-> "DZO", alpha_2 |-> Str(<<"d","z">>), alpha_3 |-> Str(<<"d","z","o">>), bibliographic |-> None, terminology |-> Str(<<"d","z","o">>)],
     [key |-> "EFI", alpha_2 |-> None, alpha_3 |-> Str(<<"e","f","i">>), bibliographic |-> None, terminology |-> Str(<<"e","f","i">>)],
     [key |-> "EGY", alpha_2 |-> None, alpha_3 |-> Str(<<"e","g","y">>), bibliographic |-> None, terminology |-> Str(<<"e","g","y">>)],
     [key |-> "EKA", alpha_2 |-> None, alpha_3 |-> Str(<<"e","k","a">>), bibliographic |-> None, terminology |-> Str(<<"e","k","a">>)],
     [key |-> "GRE", alpha_2 |-> Str(<<"e","l">>), alpha_3 |-> Str(<<"g","r","e">>), bibliographic |-> Str(<<"g","r","e">>), terminology |-> Str(<<"e","l","l">>)],
     [key |-> "ELL", alpha_2 |-> Str(<<"e","l">>), alpha_3 |-> Str(<<"e","l","l">>), bibliographic |-> Str(<<"g","r","e">>), terminology |-> Str(<<"e","l","l">>)],
     [key |-> "ELX", alpha_2 |-> None, alpha_3 |-> Str(<<"e","l","x">>), bibliographic |-> None, terminology |-> Str(<<"e","l","x">>)],
     [key |-> "ENG", alpha_2 |-> Str(<<"e","n">>), alpha_3 |-> Str(<<"e","n","g">>), bibliographic |-> None, terminology |-> Str(<<"e","n","g">>)],
     [key |-> "ENM", alpha_2 |-> None, alpha_3 |-> Str(<<"e","n","m">>), bibliographic |-> None, terminology |-> Str(<<"e","n","m">>)],
     [key |-> "EPO", alpha_2 |-> Str(<<"e","o">>), alpha_3 |-> Str(<<"e","p","o">>), bibliographic |-> None, terminology |-> Str(<<"e","p","o">>)],
     [key |-> "EST", alpha_2 |-> Str(<<"e","t">>), alpha_3 |-> Str(<<"e","s","t">>), bibliographic |-> None, terminology |-> Str(<<"e","s","t">>)],
     [key |-> "EWE", alpha_2 |-> Str(<<"e","e">>), alpha_3 |-> Str(<<"e","w","e">>), bibliographic |-> None, terminology |-> Str(<<"e","w","e">>)],
     [key |-> "EWO", alpha_2 |-> None, alpha_3 |-> Str(<<"e","w","o">>), bibliographic |-> None, terminology |-> Str(<<"e","w","o">>)],
     [key |-> "FAN", alpha_2 |-> None, alpha_3 |-> Str(<<"f","a","n">>), bibliographic |-> None, terminology |-> Str(<<"f","a","n">>)],
     [key |-> "FAO", alpha_2 |-> Str(<<"f","o">>), alpha_3 |-> Str(<<"f","a","o">>), bibliographic |-> None, terminology |-> Str(<<"f","a","o">>)],
     [key |-> "PER", alpha_2 |-> Str(<<"f","a">>), alpha_3 |-> Str(<<"p","e","r">>), bibliographic |-> Str(<<"p","e","r">>), terminology |-> Str(<<"f","a","s">>)],
     [key |-> "FAS", alpha_2 |-> Str(<<"f","a">>), alpha_3 |-> Str(<<"f","a","s">>), bibliographic |-> Str(<<"p","e","r">>), terminology |-> Str(<<"f","a","s">>)],
     [key |-> "FAT", alpha_2 |-> None, alpha_3 |-> Str(<<"f","a","t">>), bibliographic |-> None, terminology |-> Str(<<"f","a","t">>)],
     [key |-> "FIJ", alpha_2 |-> Str(<<"f","j">>), alpha_3 |-> Str(<<"f","i","j">>), bibliographic |-> None, terminology |-> Str(<<"f","i","j">>)],
     [key |-> "FIL", alpha_2 |-> None, alpha_3 |-> Str(<<"f","i","l">>), bibliographic |-> None, terminology |-> Str(<<"f","i","l">>)],
     [key |-> "FIN", alpha_2 |-> Str(<<"f","i">>), alpha_3 |-> Str(<<"f","i","n">>), bibliographic |-> None, terminology |-> Str(<<"f","i","n">>)],
     [key |-> "FIU", alpha_2 |-> None, alpha_3 |-> Str(<<"f","i","u">>), bibliographic |-> None, terminology |-> Str(<<"f","i","u">>)],
     [key |-> "FON", alpha_2 |-> None, alpha_3 |-> Str(<<"f","o","n">>), bibliographic |-> None, terminology |-> Str(<<"f","o","n">>)],
     [key |-> "FRE", alpha_2 |-> Str(<<"f","r">>), alpha_3 |-> Str(<<"f","r","e">>), bibliographic |-> Str(<<"f","r","e">>), terminology |-> Str(<<"f","r","a">>)],
     [key |-> "FRA", alpha_2 |-> Str(<<"f","r">>), alpha_3 |-> Str(<<"f","r","a">>), bibliographic |-> Str(<<"f","r","e">>), terminology |-> Str(<<"f","r","a">>)],
     [key |-> "FRM", alpha_2 |-> None, alpha_3 |-> Str(<<"f","r","m">>), bibliographic |-> None, terminology |-> Str(<<"f","r","m">>)],
     [key |-> "FRO", alpha_2 |-> None, alpha_3 |-> Str(<<"f","r","o">>), bibliographic |-> None, terminology |-> Str(<<"f","r","o">>)],
     [key |-> "FRR", alpha_2 |-> None, alpha_3 |-> Str(<<"f","r","r">>), bibliographic |-> None, terminology |-> Str(<<"f","r","r">>)],
     [key |-> "FRS", alpha_2 |-> None, alpha_3 |-> Str(<<"f","r","s">>), bibliographic |-> None, terminology |-> Str(<<"f","r","s">>)],
     [key |-> "FRY", alpha_2 |-> Str(<<"f","y">>), alpha_3 |-> Str(<<"f","r","y">>), bibliographic |-> None, terminology |-> Str(<<"f","r","y">>)],
     [key |-> "FUL", alpha_2 |-> Str(<<"f","f">>), alpha_3 |-> Str(<<"f","u","l">>), bibliographic |-> None, terminology |-> Str(<<"f","u","l">>)],
     [key |-> "FUR", alpha_2 |-> None, alpha_3 |-> Str(<<"f","u","r">>), bibliographic |-> None, terminology |-> Str(<<"f","u","r">>)],
     [key |-> "GAA", alpha_2 |-> None, alpha_3 |-> Str(<<"g","a","a">>), bibliographic |-> None, terminology |-> Str(<<"g","a","a">>)],
     [key |-> "GAY", alpha_2 |-> None, alpha_3 |-> Str(<<"g","a","y">>), bibliographic |-> None, terminology |-> Str(<<"g","a","y">>)],
     [key |-> "GBA", alpha_2 |-> None, alpha_3 |-> Str(<<"g","b","a">>), bibliographic |-> None, terminology |-> Str(<<"g","b","a">>)],
     [key |-> "GEM", alpha_2 |-> None, alpha_3 |-> Str(<<"g","e","m">>), bibliographic |-> None, terminology |-> Str(<<"g","e","m">>)],
     [key |-> "GEO", alpha_2 |-> Str(<<"k","a">>), alpha_3 |-> Str(<<"g","e","o">>), bibliographic |-> Str(<<"g","e","o">>), terminology |-> Str(<<"k","a","t">>)],
     [key |-> "KAT", alpha_2 |-> Str(<<"k","a">>), alpha_3 |-> Str(<<"k","a","t">>), bibliographic |-> Str(<<"g","e","o">>), terminology |-> Str(<<"k","a","t">>)],
     [key |-> "GEZ", alpha_2 |-> None, alpha_3 |-> Str(<<"g","e","z">>), bibliographic |-> None, terminology |-> Str(<<"g","e","z">>)],
     [key |-> "GIL", alpha_2 |-> None, alpha_3 |-> Str(<<"g","i","l">>), bibliographic |-> None, terminology |-> Str(<<"g","i","l">>)],
     [key |-> "GLA", alpha_2 |-> Str(<<"g","d">>), alpha_3 |-> Str(<<"g","l","a">>), bibliographic |-> None, terminology |-> Str(<<"g","l","a">>)],
     [key |-> "GLE", alpha_2 |-> Str(<<"g","a">>), alpha_3 |-> Str(<<"g","l","e">>), bibliographic |-> None, terminology |-> Str(<<"g","l","e">>)],
     [key |-> "GLG", alpha_2 |-> Str(<<"g","l">>), alpha_3 |-> Str(<<"g","l","g">>), bibliographic |-> None, terminology |-> Str(<<"g","l","g">>)],
     [key |-> "GLV", alpha_2 |-> Str(<<"g","v">>), alpha_3 |-> Str(<<"g","l","v">>), bibliographic |-> None, terminology |-> Str(<<"g","l","v">>)],
     [key |-> "GMH", alpha_2 |-> None, alpha_3 |-> Str(<<"g","m","h">>), bibliographic |-> None, terminology |-> Str(<<"g","m","h">>)],
     [key |-> "GOH", alpha_2 |-> None, alpha_3 |-> Str(<<"g","o","h">>), bibliographic |-> None, terminology |-> Str(<<"g","o","h">>)],
     [key |-> "GON", alpha_2 |-> None, alpha_3 |-> Str(<<"g","o","n">>), bibliographic |-> None, terminology |-> Str(<<"g","o","n">>)],
     [key |-> "GOR", alpha_2 |-> None, alpha_3 |-> Str(<<"g","o","r">>), bibliographic |-> None, terminology |-> Str(<<"g","o","r">>)],
     [key |-> "GOT", alpha_2 |-> None, alpha_3 |-> Str(<<"g","o","t">>), bibliographic |-> None, terminology |-> Str(<<"g","o","t">>)],
     [key |-> "GRB", alpha_2 |-> None, alpha_3 |-> Str(<<"g","r","b">>), bibliographic |-> None, terminology |-> Str(<<"g","r","b">>)],
     [key |-> "GRC", alpha_2 |-> None, alpha_3 |-> Str(<<"g","r","c">>), bibliographic |-> None, terminology |-> Str(<<"g","r","c">>)],
     [key |-> "GRN", alpha_2 |-> Str(<<"g","n">>), alpha_3 |-> Str(<<"g","r","n">>), bibliographic |-> None, terminology |-> Str(<<"g","r","n">>)],
     [key |-> "GSW", alpha_2 |-> None, alpha_3 |-> Str(<<"g","s","w">>), bibliographic |-> None, terminology |-> Str(<<"g","s","w">>)],
     [key |-> "GUJ", alpha_2 |-> Str(<<"g","u">>), alpha_3 |-> Str(<<"g","u","j">>), bibliographic |-> None, terminology |-> Str(<<"g","u","j">>)],
     [key |-> "GWI", alpha_2 |-> None, alpha_3 |-> Str(<<"g","w","i">>), bibliographic |-> None, terminology |-> Str(<<"g","w","i">>)],
     [key |-> "HAI", alpha_2 |-> None, alpha_3 |-> Str(<<"h","a","i">>), bibliographic |-> None, terminology |-> Str(<<"h","a","i">>)],
     [key |-> "HAT", alpha_2 |-> Str(<<"h","t">>), alpha_3 |-> Str(<<"h","a","t">>), bibliographic |-> None, terminology |-> Str(<<"h","a","t">>)],
     [key |-> "HAU", alpha_2 |-> Str(<<"h","a">>), alpha_3 |-> Str(<<"h","a","u">>), bibliographic |-> None, terminology |-> Str(<<"h","a","u">>)],
     [key |-> "HAW", alpha_2 |-> None, alpha_3 |-> Str(<<"h","a","w">>), bibliographic |-> None, terminology |-> Str(<<"h","a","w">>)],
     [key |-> "HEB", alpha_2 |-> Str(<<"h","e">>), alpha_3 |-> Str(<<"h","e","b">>), bibliographic |-> None, terminology |-> Str(<<"h","e","b">>)],
     [key |-> "HER", alpha_2 |-> Str(<<"h","z">>), alpha_3 |-> Str(<<"h","e","r">>), bibliographic |-> None, terminology |-> Str(<<"h","e","r">>)],
     [key |-> "HIL", alpha_2 |-> None, alpha_3 |-> Str(<<"h","i","l">>), bibliographic |-> None, terminology |-> Str(<<"h","i","l">>)],
     [key |-> "HIM", alpha_2 |-> None, alpha_3 |-> Str(<<"h","i","m">>), bibliographic |-> None, terminology |-> Str(<<"h","i","m">>)],
     [key |-> "HIN", alpha_2 |-> Str(<<"h","i">>), alpha_3 |-> Str(<<"h","i","n">>), bibliographic |-> None, terminology |-> Str(<<"h","i","n">>)],
     [key |-> "HIT", alpha_2 |-> None, alpha_3 |-> Str(<<"h","i","t">>), bibliographic |-> None, terminology |-> Str(<<"h","i","t">>)],
     [key |-> "HMN", alpha_2 |-> None, alpha_3 |-> Str(<<"h","m","n">>), bibliographic |-> None, terminology |-> Str(<<"h","m","n">>)],
     [key |-> "HMO", alpha_2 |-> Str(<<"h","o">>), alpha_3 |-> Str(<<"h","m","o">>), bibliographic |-> None, terminology |-> Str(<<"h","m","o">>)],
     [key |-> "HRV", alpha_2 |-> Str(<<"h","r">>), alpha_3 |-> Str(<<"h","r","v">>), bibliographic |-> None, terminology |-> Str(<<"h","r","v">>)],
     [key |-> "HSB", alpha_2 |-> None, alpha_3 |-> Str(<<"h","s","b">>), bibliographic |-> None, terminology |-> Str(<<"h","s","b">>)],
     [key |-> "HUN", alpha_2 |-> Str(<<"h","u">>), alpha_3 |-> Str(<<"h","u","n">>), bibliographic |-> None, terminology |-> Str(<<"h","u","n">>)],
     [key |-> "HUP", alpha_2 |-> None, alpha_3 |-> Str(<<"h","u","p">>), bibliographic |-> None, terminology |-> Str(<<"h","u","p">>)],
     [key |-> "IBA", alpha_2 |-> None, alpha_3 |-> Str(<<"i","b","a">>), bibliographic |-> None, terminology |-> Str(<<"i","b","a">>)],
     [key |-> "IBO", alpha_2 |-> Str(<<"i","g">>), alpha_3 |-> Str(<<"i","b","o">>), bibliographic |-> None, terminology |-> Str(<<"i","b","o">>)],
     [key |-> "ICE", alpha_2 |-> Str(<<"i","s">>), alpha_3 |-> Str(<<"i","c","e">>), bibliographic |-> Str(<<"i","c","e">>), terminology |-> Str(<<"i","s","l">>)],
     [key |-> "ISL", alpha_2 |-> Str(<<"i","s">>), alpha_3 |-> Str(<<"i","s","l">>), bibliographic |-> Str(<<"i","c","e">>), terminology |-> Str(<<"i","s","l">>)],
     [key |-> "IDO", alpha_2 |-> Str(<<"i","o">>), alpha_3 |-> Str(<<"i","d","o">>), bibliographic |-> None, terminology |-> Str(<<"i","d","o">>)],
     [key |-> "III", alpha_2 |-> Str(<<"i","i">>), alpha_3 |-> Str(<<"i","i","i">>), bibliographic |-> None, terminology |-> Str(<<"i","i","i">>)],
     [key |-> "IJO", alpha_2 |-> None, alpha_3 |-> Str(<<"i","j","o">>), bibliographic |-> None, terminology |-> Str(<<"i","j","o">>)],
     [key |-> "IKU", alpha_2 |-> Str(<<"i","u">>), alpha_3 |-> Str(<<"i","k","u">>), bibliographic |-> None, terminology |-> Str(<<"i","k","u">>)],
     [key |-> "ILE", alpha_2 |-> Str(<<"i","e">>), alpha_3 |-> Str(<<"i","l","e">>), bibliographic |-> None, terminology |-> Str(<<"i","l","e">>)],
     [key |-> "ILO", alpha_2 |-> None, alpha_3 |-> Str(<<"i","l","o">>), bibliographic |-> None, terminology |-> Str(<<"i","l","o">>)],
     [key |-> "INA", alpha_2 |-> Str(<<"i","a">>), alpha_3 |-> Str(<<"i","n","a">>), bibliographic |-> None, terminology |-> Str(<<"i","n","a">>)],
     [key |-> "INC", alpha_2 |-> None, alpha_3 |-> Str(<<"i","n","c">>), bibliographic |-> None, terminology |-> Str(<<"i","n","c">>)],
     [key |-> "IND", alpha_2 |-> Str(<<"i","d">>), alpha_3 |-> Str(<<"i","n","d">>), bibliographic |-> None, terminology |-> Str(<<"i","n","d">>)],
     [key |-> "INE", alpha_2 |-> None, alpha_3 |-> Str(<<"i","n","e">>), bibliographic |-> None, terminology |-> Str(<<"i","n","e">>)],
     [key |-> "INH", alpha_2 |-> None, alpha_3 |-> Str(<<"i","n","h">>), bibliographic |-> None, terminology |-> Str(<<"i","n","h">>)],
     [key |-> "IPK", alpha_2 |-> Str(<<"i","k">>), alpha_3 |-> Str(<<"i","p","k">>), bibliographic |-> None, terminology |-> Str(<<"i","p","k">>)],
     [key |-> "IRA", alpha_2 |-> None, alpha_3 |-> Str(<<"i","r","a">>), bibliographic |-> None, terminology |-> Str(<<"i","r","a">>)],
     [key |-> "IRO", alpha_2 |-> None, alpha_3 |-> Str(<<"i","r","o">>), bibliographic |-> None, terminology |-> Str(<<"i","r","o">>)],
     [key |-> "ITA", alpha_2 |-> Str(<<"i","t">>), alpha_3 |-> Str(<<"i","t","a">>), bibliographic |-> None, terminology |-> Str(<<"i","t","a">>)],
     [key |-> "JAV", alpha_2 |-> Str(<<"j","v">>), alpha_3 |-> Str(<<"j","a","v">>), bibliographic |-> None, terminology |-> Str(<<"j","a","v">>)],
     [key |-> "JBO", alpha_2 |-> None, alpha_3 |-> Str(<<"j","b","o">>), bibliographic |-> None, terminology |-> Str(<<"j","b","o">>)],
     [key |-> "JPN", alpha_2 |-> Str(<<"j","a">>), alpha_3 |-> Str(<<"j","p","n">>), bibliographic |-> None, terminology |-> Str(<<"j","p","n">>)],
     [key |-> "JPR", alpha_2 |-> None, alpha_3 |-> Str(<<"j","p","r">>), bibliographic |-> None, terminology |-> Str(<<"j","p","r">>)],
     [key |-> "JRB", alpha_2 |-> None, alpha_3 |-> Str(<<"j","r","b">>), bibliographic |-> None, terminology |-> Str(<<"j","r","b">>)],
     [key |-> "KAA", alpha_2 |-> None, alpha_3 |-> Str(<<"k","a","a">>), bibliographic |-> None, terminology |-> Str(<<"k","a","a">>)],
     [key |-> "KAB", alpha_2 |-> None, alpha_3 |-> Str(<<"k","a","b">>), bibliographic |-> None, terminology |-> Str(<<"k","a","b">>)],
     [key |-> "KAC", alpha_2 |-> None, alpha_3 |-> Str(<<"k","a","c">>), bibliographic |-> None, terminology |-> Str(<<"k","a","c">>)],
     [key |-> "KAL", alpha_2 |-> Str(<<"k","l">>), alpha_3 |-> Str(<<"k","a","l">>), bibliographic |-> None, terminology |-> Str(<<"k","a","l">>)],
     [key |-> "KAM", alpha_2 |-> None, alpha_3 |-> Str(<<"k","a","m">>), bibliographic |-> None, terminology |-> Str(<<"k","a","m">>)],
     [key |-> "KAN", alpha_2 |-> Str(<<"k","n">>), alpha_3 |-> Str(<<"k","a","n">>), bibliographic |-> None, terminology |-> Str(<<"k","a","n">>)],
     [key |-> "KAR", alpha_2 |-> None, alpha_3 |-> Str(<<"k","a","r">>), bibliographic |-> None, terminology |-> Str(<<"k","a","r">>)],
     [key |-> "KAS", alpha_2 |-> Str(<<"k","s">>), alpha_3 |-> Str(<<"k","a","s">>), bibliographic |-> None, terminology |-> Str(<<"k","a","s">>)],
     [key |-> "KAU", alpha_2 |-> Str(<<"k","r">>), alpha_3 |-> Str(<<"k","a","u">>), bibliographic |-> None, terminology |-> Str(<<"k","a","u">>)],
     [key |-> "KAW", alpha_2 |-> None, alpha_3 |-> Str(<<"k","a","w">>), bibliographic |-> None, terminology |-> Str(<<"k","a","w">>)],
     [key |-> "KAZ", alpha_2 |-> Str(<<"k","k">>), alpha_3 |-> Str(<<"k","a","z">>), bibliographic |-> None, terminology |-> Str(<<"k","a","z">>)],
     [key |-> "KBD", alpha_2 |-> None, alpha_3 |-> Str(<<"k","b","d">>), bibliographic |-> None, terminology |-> Str(<<"k","b","d">>)],
     [key |-> "KHA", alpha_2 |-> None, alpha_3 |-> Str(<<"k","h","a">>), bibliographic |-> None, terminology |-> Str(<<"k","h","a">>)],
     [key |-> "KHI", alpha_2 |-> None, alpha_3 |-> Str(<<"k","h","i">>), bibliographic |-> None, terminology |-> Str(<<"k","h","i">>)],
     [key |-> "KHM", alpha_2 |-> Str(<<"k","m">>), alpha_3 |-> Str(<<"k","h","m">>), bibliographic |-> None, terminology |-> Str(<<"k","h","m">>)],
     [key |-> "KHO", alpha_2 |-> None, alpha_3 |-> Str(<<"k","h","o">>), bibliographic |-> None, terminology |-> Str(<<"k","h","o">>)],
     [key |-> "KIK", alpha_2 |-> Str(<<"k","i">>), alpha_3 |-> Str(<<"k","i","k">>), bibliographic |-> None, terminology |-> Str(<<"k","i","k">>)],
     [key |-> "KIN", alpha_2 |-> Str(<<"r","w">>), alpha_3 |-> Str(<<"k","i","n">>), bibliographic |-> None, terminology |-> Str(<<"k","i","n">>)],
     [key |-> "KIR", alpha_2 |-> Str(<<"k","y">>), alpha_3 |-> Str(<<"k","i","r">>), bibliographic |-> None, terminology |-> Str(<<"k","i","r">>)],
     [key |-> "KMB", alpha_2 |-> None, alpha_3 |-> Str(<<"k","m","b">>), bibliographic |-> None, terminology |-> Str(<<"k","m","b">>)],
     [key |-> "KOK", alpha_2 |-> None, alpha_3 |-> Str(<<"k","o","k">>), bibliographic |-> None, terminology |-> Str(<<"k","o","k">>)],
     [key |-> "KOM", alpha_2 |-> Str(<<"k","v">>), alpha_3 |-> Str(<<"k","o","m">>), bibliographic |-> None, terminology |-> Str(<<"k","o","m">>)],
     [key |-> "KON", alpha_2 |-> Str(<<"k","g">>), alpha_3 |-> Str(<<"k","o","n">>), bibliographic |-> None, terminology |-> Str(<<"k","o","n">>)],
     [key |-> "KOR", alpha_2 |-> Str(<<"k","o">>), alpha_3 |-> Str(<<"k","o","r">>), bibliographic |-> None, terminology |-> Str(<<"k","o","r">>)],
     [key |-> "KOS", alpha_2 |-> None, alpha_3 |-> Str(<<"k","o","s">>), bibliographic |-> None, terminology |-> Str(<<"k","o","s">>)],
     [key |-> "KPE", alpha_2 |-> None, alpha_3 |-> Str(<<"k","p","e">>), bibliographic |-> None, terminology |-> Str(<<"k","p","e">>)],
     [key |-> "KRC", alpha_2 |-> None, alpha_3 |-> Str(<<"k","r","c">>), bibliographic |-> None, terminology |-> Str(<<"k","r","c">>)],
     [key |-> "KRL", alpha_2 |-> None, alpha_3 |-> Str(<<"k","r","l">>), bibliographic |-> None, terminology |-> Str(<<"k","r","l">>)],
     [key |-> "KRO", alpha_2 |-> None, alpha_3 |-> Str(<<"k","r","o">>), bibliographic |-> None, terminology |-> Str(<<"k","r","o">>)],
     [key |-> "KRU", alpha_2 |-> None, alpha_3 |-> Str(<<"k","r","u">>), bibliographic |-> None, terminology |-> Str(<<"k","r","u">>)],
     [key |-> "KUA", alpha_2 |-> Str(<<"k","j">>), alpha_3 |-> Str(<<"k","u","a">>), bibliographic |-> None, terminology |-> Str(<<"k","u","a">>)],
     [key |-> "KUM", alpha_2 |-> None, alpha_3 |-> Str(<<"k","u","m">>), bibliographic |-> None, terminology |-> Str(<<"k","u","m">>)],
     [key |-> "KUR", alpha_2 |-> Str(<<"k","u">>), alpha_3 |-> Str(<<"k","u","r">>), bibliographic |-> None, terminology |-> Str(<<"k","u","r">>)],
     [key |-> "KUT", alpha_2 |-> None, alpha_3 |-> Str(<<"k","u","t">>), bibliographic |-> None, terminology |-> Str(<<"k","u","t">>)],
     [key |-> "LAD", alpha_2 |-> None, alpha_3 |-> Str(<<"l","a","d">>), bibliographic |-> None, terminology |-> Str(<<"l","a","d">>)],
     [key |-> "LAH", alpha_2 |-> None, alpha_3 |-> Str(<<"l","a","h">>), bibliographic |-> None, terminology |-> Str(<<"l","a","h">>)],
     [key |-> "LAM", alpha_2 |-> None, alpha_3 |-> Str(<<"l","a","m">>), bibliographic |-> None, terminology |-> Str(<<"l","a","m">>)],
     [key |-> "LAO", alpha_2 |-> Str(<<"l","o">>), alpha_3 |-> Str(<<"l","a","o">>), bibliographic |-> None, terminology |-> Str(<<"l","a","o">>)],
     [key |-> "LAT", alpha_2 |-> Str(<<"l","a">>), alpha_3 |-> Str(<<"l","a","t">>), bibliographic |-> None, terminology |-> Str(<<"l","a","t">>)],
     [key |-> "LAV", alpha_2 |-> Str(<<"l","v">>), alpha_3 |-> Str(<<"l","a","v">>), bibliographic |-> None, terminology |-> Str(<<"l","a","v">>)],
     [key |-> "LEZ", alpha_2 |-> None, alpha_3 |-> Str(<<"l","e","z">>), bibliographic |-> None, terminology |-> Str(<<"l","e","z">>)],
     [key |-> "LIM", alpha_2 |-> Str(<<"l","i">>), alpha_3 |-> Str(<<"l","i","m">>), bibliographic |-> None, terminology |-> Str(<<"l","i","m">>)],
     [key |-> "LIN", alpha_2 |-> Str(<<"l","n">>), alpha_3 |-> Str(<<"l","i","n">>), bibliographic |-> None, terminology |-> Str(<<"l","i","n">>)],
     [key |-> "LIT", alpha_2 |-> Str(<<"l","t">>), alpha_3 |-> Str(<<"l","i","t">>), bibliographic |-> None, terminology |-> Str(<<"l","i","t">>)],
     [key |-> "LOL", alpha_2 |-> None, alpha_3 |-> Str(<<"l","o","l">>), bibliographic |-> None, terminology |-> Str(<<"l","o","l">>)],
     [key |-> "LOZ", alpha_2 |-> None, alpha_3 |-> Str(<<"l","o","z">>), bibliographic |-> None, terminology |-> Str(<<"l","o","z">>)],
     [key |-> "LTZ", alpha_2 |-> Str(<<"l","b">>), alpha_3 |-> Str(<<"l","t","z">>), bibliographic |-> None, terminology |-> Str(<<"l","t","z">>)],
     [key |-> "LUA", alpha_2 |-> None, alpha_3 |-> Str(<<"l","u","a">>), bibliographic |-> None, terminology |-> Str(<<"l","u","a">>)],
     [key |-> "LUB", alpha_2 |-> Str(<<"l","u">>), alpha_3 |-> Str(<<"l","u","b">>), bibliographic |-> None, terminology |-> Str(<<"l","u","b">>)],
     [key |-> "LUG", alpha_2 |-> Str(<<"l","g">>), alpha_3 |-> Str(<<"l","u","g">>), bibliographic |-> None, terminology |-> Str(<<"l","u","g">>)],
     [key |-> "LUI", alpha_2 |-> None, alpha_3 |-> Str(<<"l","u","i">>), bibliographic |-> None, terminology |-> Str(<<"l","u","i">>)],
     [key |-> "LUN", alpha_2 |-> None, alpha_3 |-> Str(<<"l","u","n">>), bibliographic |-> None, terminology |-> Str(<<"l","u","n">>)],
     [key |-> "LUO", alpha_2 |-> None, alpha_3 |-> Str(<<"l","u","o">>), bibliographic |-> None, terminology |-> Str(<<"l","u","o">>)],
     [key |-> "LUS", alpha_2 |-> None, alpha_3 |-> Str(<<"l","u","s">>), bibliographic |-> None, terminology |-> Str(<<"l","u","s">>)],
     [key |-> "MAC", alpha_2 |-> Str(<<"m","k">>), alpha_3 |-> Str(<<"m","a","c">>), bibliographic |-> Str(<<"m","a","c">>), terminology |-> Str(<<"m","k","d">>)],
     [key |-> "MKD", alpha_2 |-> Str(<<"m","k">>), alpha_3 |-> Str(<<"m","k","d">>), bibliographic |-> Str(<<"m","a","c">>), terminology |-> Str(<<"m","k","d">>)],
     [key |-> "MAD", alpha_2 |-> None, alpha_3 |-> Str(<<"m","a","d">>), bibliographic |-> None, terminology |-> Str(<<"m","a","d">>)],
     [key |-> "MAG", alpha_2 |-> None, alpha_3 |-> Str(<<"m","a","g">>), bibliographic |-> None, terminology |-> Str(<<"m","a","g">>)],
     [key |-> "MAH", alpha_2 |-> Str(<<"m","h">>), alpha_3 |-> Str(<<"m","a","h">>), bibliographic |-> None, terminology |-> Str(<<"m","a","h">>)],
     [key |-> "MAI", alpha_2 |-> None, alpha_3 |-> Str(<<"m","a","i">>), bibliographic |-> None, terminology |-> Str(<<"m","a","i">>)],
     [key |-> "MAK", alpha_2 |-> None, alpha_3 |-> Str(<<"m","a","k">>), bibliographic |-> None, terminology |-> Str(<<"m","a","k">>)],
     [key |-> "MAL", alpha_2 |-> Str(<<"m","l">>), alpha_3 |-> Str(<<"m","a","l">>), bibliographic |-> None, terminology |-> Str(<<"m","a","l">>)],
     [key |-> "MAN", alpha_2 |-> None, alpha_3 |-> Str(<<"m","a","n">>), bibliographic |-> None, terminology |-> Str(<<"m","a","n">>)],
     [key |-> "MAO", alpha_2 |-> Str(<<"m","i">>), alpha_3 |-> Str(<<"m","a","o">>), bibliographic |-> Str(<<"m","a","o">>), terminology |-> Str(<<"m","r","i">>)],
     [key |-> "MRI", alpha_2 |-> Str(<<"m","i">>), alpha_3 |-> Str(<<"m","r","i">>), bibliographic |-> Str(<<"m","a","o">>), terminology |-> Str(<<"m","r","i">>)],
     [key |-> "MAP", alpha_2 |-> None, alpha_3 |-> Str(<<"m","a","p">>), bibliographic |-> None, terminology |-> Str(<<"m","a","p">>)],
     [key |-> "MAR", alpha_2 |-> Str(<<"m","r">>), alpha_3 |-> Str(<<"m","a","r">>), bibliographic |-> None, terminology |-> Str(<<"m","a","r">>)],
     [key |-> "MAS", alpha_2 |-> None, alpha_3 |-> Str(<<"m","a","s">>), bibliographic |-> None, terminology |-> Str(<<"m","a","s">>)],
     [key |-> "MAY", alpha_2 |-> Str(<<"m","s">>), alpha_3 |-> Str(<<"m","a","y">>), bibliographic |-> Str(<<"m","a","y">>), terminology |-> Str(<<"m","s","a">>)],
     [key |-> "MSA", alpha_2 |-> Str(<<"m","s">>), alpha_3 |-> Str(<<"m","s","a">>), bibliographic |-> Str(<<"m","a","y">>), terminology |-> Str(<<"m","s","a">>)],
     [key |-> "MDF", alpha_2 |-> None, alpha_3 |-> Str(<<"m","d","f">>), bibliographic |-> None, terminology |-> Str(<<"m","d","f">>)],
     [key |-> "MDR", alpha_2 |-> None, alpha_3 |-> Str(<<"m","d","r">>), bibliographic |-> None, terminology |-> Str(<<"m","d","r">>)],
     [key |-> "MEN", alpha_2 |-> None, alpha_3 |-> Str(<<"m","e","n">>), bibliographic |-> None, terminology |-> Str(<<"m","e","n">>)],
     [key |-> "MGA", alpha_2 |-> None, alpha_3 |-> Str(<<"m","g","a">>), bibliographic |-> None, terminology |-> Str(<<"m","g","a">>)],
     [key |-> "MIC", alpha_2 |-> None, alpha_3 |-> Str(<<"m","i","c">>), bibliographic |-> None, terminology |-> Str(<<"m","i","c">>)],
     [key |-> "MIN", alpha_2 |-> None, alpha_3 |-> Str(<<"m","i","n">>), bibliographic |-> None, terminology |-> Str(<<"m","i","n">>)],
     [key |-> "MIS", alpha_2 |-> None, alpha_3 |-> Str(<<"m","i","s">>), bibliographic |-> None, terminology |-> Str(<<"m","i","s">>)],
     [key |-> "MKH", alpha_2 |-> None, alpha_3 |-> Str(<<"m","k","h">>), bibliographic |-> None, terminology |-> Str(<<"m","k","h">>)],
     [key |-> "MLG", alpha_2 |-> Str(<<"m","g">>), alpha_3 |-> Str(<<"m","l","g">>), bibliographic |-> None, terminology |-> Str(<<"m","l","g">>)],
     [key |-> "MLT", alpha_2 |-> Str(<<"m","t">>), alpha_3 |-> Str(<<"m","l","t">>), bibliographic |-> None, terminology |-> Str(<<"m","l","t">>)],
     [key |-> "MNC", alpha_2 |-> None, alpha_3 |-> Str(<<"m","n","c">>), bibliographic |-> None, terminology |-> Str(<<"m","n","c">>)],
     [key |-> "MNI", alpha_2 |-> None, alpha_3 |-> Str(<<"m","n","i">>), bibliographic |-> None, terminology |-> Str(<<"m","n","i">>)],
     [key |-> "MNO", alpha_2 |-> None, alpha_3 |-> Str(<<"m","n","o">>), bibliographic |-> None, terminology |-> Str(<<"m","n","o">>)],
     [key |-> "MOH", alpha_2 |-> None, alpha_3 |-> Str(<<"m","o","h">>), bibliographic |-> None, terminology |-> Str(<<"m","o","h">>)],
     [key |-> "MON", alpha_2 |-> Str(<<"m","n">>), alpha_3 |-> Str(<<"m","o","n">>), bibliographic |-> None, terminology |-> Str(<<"m","o","n">>)],
     [key |-> "MOS", alpha_2 |-> None, alpha_3 |-> Str(<<"m","o","s">>), bibliographic |-> None, terminology |-> Str(<<"m","o","s">>)],
     [key |-> "MUL", alpha_2 |-> None, alpha_3 |-> Str(<<"m","u","l">>), bibliographic |-> None, terminology |-> Str(<<"m","u","l">>)],
     [key |-> "MUN", alpha_2 |-> None, alpha_3 |-> Str(<<"m","u","n">>), bibliographic |-> None, terminology |-> Str(<<"m","u","n">>)],
     [key |-> "MUS", alpha_2 |-> None, alpha_3 |-> Str(<<"m","u","s">>), bibliographic |-> None, terminology |-> Str(<<"m","u","s">>)],
     [key |-> "MWL", alpha_2 |-> None, alpha_3 |-> Str(<<"m","w","l">>), bibliographic |-> None, terminology |-> Str(<<"m","w","l">>)],
     [key |-> "MWR", alpha_2 |-> None, alpha_3 |-> Str(<<"m","w","r">>), bibliographic |-> None, terminology |-> Str(<<"m","w","r">>)],
     [key |-> "MYN", alpha_2 |-> None, alpha_3 |-> Str(<<"m","y","n">>), bibliographic |-> None, terminology |-> Str(<<"m","y","n">>)],
     [key |-> "MYV", alpha_2 |-> None, alpha_3 |-> Str(<<"m","y","v">>), bibliographic |-> None, terminology |-> Str(<<"m","y","v">>)],
     [key |-> "NAH", alpha_2 |-> None, alpha_3 |-> Str(<<"n","a","h">>), bibliographic |-> None, terminology |-> Str(<<"n","a","h">>)],
     [key |-> "NAI", alpha_2 |-> None, alpha_3 |-> Str(<<"n","a","i">>), bibliographic |-> None, terminology |-> Str(<<"n","a","i">>)],
     [key |-> "NAP", alpha_2 |-> None, alpha_3 |-> Str(<<"n","a","p">>), bibliographic |-> None, terminology |-> Str(<<"n","a","p">>)],
     [key |-> "NAU", alpha_2 |-> Str(<<"n","a">>), alpha_3 |-> Str(<<"n","a","u">>), bibliographic |-> None, terminology |-> Str(<<"n","a","u">>)],
     [key |-> "NAV", alpha_2 |-> Str(<<"n","v">>), alpha_3 |-> Str(<<"n","a","v">>), bibliographic |-> None, terminology |-> Str(<<"n","a","v">>)],
     [key |-> "NBL", alpha_2 |-> Str(<<"n","r">>), alpha_3 |-> Str(<<"n","b","l">>), bibliographic |-> None, terminology |-> Str(<<"n","b","l">>)],
     [key |-> "NDE", alpha_2 |-> Str(<<"n","d">>), alpha_3 |-> Str(<<"n","d","e">>), bibliographic |-> None, terminology |-> Str(<<"n","d","e">>)],
     [key |-> "NDO", alpha_2 |-> Str(<<"n","g">>), alpha_3 |-> Str(<<"n","d","o">>), bibliographic |-> None, terminology |-> Str(<<"n","d","o">>)],
     [key |-> "NDS", alpha_2 |-> None, alpha_3 |-> Str(<<"n","d","s">>), bibliographic |-> None, terminology |-> Str(<<"n","d","s">>)],
     [key |-> "NEP", alpha_2 |-> Str(<<"n","e">>), alpha_3 |-> Str(<<"n","e","p">>), bibliographic |-> None, terminology |-> Str(<<"n","e","p">>)],
     [key |-> "NEW", alpha_2 |-> None, alpha_3 |-> Str(<<"n","e","w">>), bibliographic |-> None, terminology |-> Str(<<"n","e","w">>)],
     [key |-> "NIA", alpha_2 |-> None, alpha_3 |-> Str(<<"n","i","a">>), bibliographic |-> None, terminology |-> Str(<<"n","i","a">>)],
     [key |-> "NIC", alpha_2 |-> None, alpha_3 |-> Str(<<"n","i","c">>), bibliographic |-> None, terminology |-> Str(<<"n","i","c">>)],
     [key |-> "NIU", alpha_2 |-> None, alpha_3 |-> Str(<<"n","i","u">>), bibliographic |-> None, terminology |-> Str(<<"n","i","u">>)],
     [key |-> "NNO", alpha_2 |-> Str(<<"n","n">>), alpha_3 |-> Str(<<"n","n","o">>), bibliographic |-> None, terminology |-> Str(<<"n","n","o">>)],
     [key |-> "NOB", alpha_2 |-> Str(<<"n","b">>), alpha_3 |-> Str(<<"n","o","b">>), bibliographic |-> None, terminology |-> Str(<<"n","o","b">>)],
     [key |-> "NOG", alpha_2 |-> None, alpha_3 |-> Str(<<"n","o","g">>), bibliographic |-> None, terminology |-> Str(<<"n","o","g">>)],
     [key |-> "NON", alpha_2 |-> None, alpha_3 |-> Str(<<"n","o","n">>), bibliographic |-> None, terminology |-> Str(<<"n","o","n">>)],
     [key |-> "NOR", alpha_2 |-> Str(<<"n","o">>), alpha_3 |-> Str(<<"n","o","r">>), bibliographic |-> None, terminology |-> Str(<<"n","o","r">>)],
     [key |-> "NQO", alpha_2 |-> None, alpha_3 |-> Str(<<"n","q","o">>), bibliographic |-> None, terminology |-> Str(<<"n","q","o">>)],
     [key |-> "NSO", alpha_2 |-> None, alpha_3 |-> Str(<<"n","s","o">>), bibliographic |-> None, terminology |-> Str(<<"n","s","o">>)],
     [key |-> "NUB", alpha_2 |-> None, alpha_3 |-> Str(<<"n","u","b">>), bibliographic |-> None, terminology |-> Str(<<"n","u","b">>)],
     [key |-> "NWC", alpha_2 |-> None, alpha_3 |-> Str(<<"n","w","c">>), bibliographic |-> None, terminology |-> Str(<<"n","w","c">>)],
     [key |-> "NYA", alpha_2 |-> Str(<<"n","y">>), alpha_3 |-> Str(<<"n","y","a">>), bibliographic |-> None, terminology |-> Str(<<"n","y","a">>)],
     [key |-> "NYM", alpha_2 |-> None, alpha_3 |-> Str(<<"n","y","m">>), bibliographic |-> None, terminology |-> Str(<<"n","y","m">>)],
     [key |-> "NYN", alpha_2 |-> None, alpha_3 |-> Str(<<"n","y","n">>), bibliographic |-> None, terminology |-> Str(<<"n","y","n">>)],
     [key |-> "NYO", alpha_2 |-> None, alpha_3 |-> Str(<<"n","y","o">>), bibliographic |-> None, terminology |-> Str(<<"n","y","o">>)],
     [key |-> "NZI", alpha_2 |-> None, alpha_3 |-> Str(<<"n","z","i">>), bibliographic |-> None, terminology |-> Str(<<"n","z","i">>)],
     [key |-> "OCI", alpha_2 |-> Str(<<"o","c">>), alpha_3 |-> Str(<<"o","c","i">>), bibliographic |-> None, terminology |-> Str(<<"o","c","i">>)],
     [key |-> "OJI", alpha_2 |-> Str(<<"o","j">>), alpha_3 |-> Str(<<"o","j","i">>), bibliographic |-> None, terminology |-> Str(<<"o","j","i">>)],
     [key |-> "ORI", alpha_2 |-> Str(<<"o","r">>), alpha_3 |-> Str(<<"o","r","i">>), bibliographic |-> None, terminology |-> Str(<<"o","r","i">>)],
     [key |-> "ORM", alpha_2 |-> Str(<<"o","m">>), alpha_3 |-> Str(<<"o","r","m">>), bibliographic |-> None, terminology |-> Str(<<"o","r","m">>)],
     [key |-> "OSA", alpha_2 |-> None, alpha_3 |-> Str(<<"o","s","a">>), bibliographic |-> None, terminology |-> Str(<<"o","s","a">>)],
     [key |-> "OSS", alpha_2 |-> Str(<<"o","s">>), alpha_3 |-> Str(<<"o","s","s">>), bibliographic |-> None, terminology |-> Str(<<"o","s","s">>)],
     [key |-> "OTA", alpha_2 |-> None, alpha_3 |-> Str(<<"o","t","a">>), bibliographic |-> None, terminology |-> Str(<<"o","t","a">>)],
     [key |-> "OTO", alpha_2 |-> None, alpha_3 |-> Str(<<"o","t","o">>), bibliographic |-> None, terminology |-> Str(<<"o","t","o">>)],
     [key |-> "PAA", alpha_2 |-> None, alpha_3 |-> Str(<<"p","a","a">>), bibliographic |-> None, terminology |-> Str(<<"p","a","a">>)],
     [key |-> "PAG", alpha_2 |-> None, alpha_3 |-> Str(<<"p","a","g">>), bibliographic |-> None, terminology |-> Str(<<"p","a","g">>)],
     [key |-> "PAL", alpha_2 |-> None, alpha_3 |-> Str(<<"p","a","l">>), bibliographic |-> None, terminology |-> Str(<<"p","a","l">>)],
     [key |-> "PAM", alpha_2 |-> None, alpha_3 |-> Str(<<"p","a","m">>), bibliographic |-> None, terminology |-> Str(<<"p","a","m">>)],
     [key |-> "PAN", alpha_2 |-> Str(<<"p","a">>), alpha_3 |-> Str(<<"p","a","n">>), bibliographic |-> None, terminology |-> Str(<<"p","a","n">>)],
     [key |-> "PAP", alpha_2 |-> None, alpha_3 |-> Str(<<"p","a","p">>), bibliographic |-> None, terminology |-> Str(<<"p","a","p">>)],
     [key |-> "PAU", alpha_2 |-> None, alpha_3 |-> Str(<<"p","a","u">>), bibliographic |-> None, terminology |-> Str(<<"p","a","u">>)],
     [key |-> "PEO", alpha_2 |-> None, alpha_3 |-> Str(<<"p","e","o">>), bibliographic |-> None, terminology |-> Str(<<"p","e","o">>)],
     [key |-> "PHI", alpha_2 |-> None, alpha_3 |-> Str(<<"p","h","i">>), bibliographic |-> None, terminology |-> Str(<<"p","h","i">>)],
     [key |-> "PHN", alpha_2 |-> None, alpha_3 |-> Str(<<"p","h","n">>), bibliographic |-> None, terminology |-> Str(<<"p","h","n">>)],
     [key |-> "PLI", alpha_2 |-> Str(<<"p","i">>), alpha_3 |-> Str(<<"p","l","i">>), bibliographic |-> None, terminology |-> Str(<<"p","l","i">>)],
     [key |-> "POL", alpha_2 |-> Str(<<"p","l">>), alpha_3 |-> Str(<<"p","o","l">>), bibliographic |-> None, terminology |-> Str(<<"p","o","l">>)],
     [key |-> "PON", alpha_2 |-> None, alpha_3 |-> Str(<<"p","o","n">>), bibliographic |-> None, terminology |-> Str(<<"p","o","n">>)],
     [key |-> "POR", alpha_2 |-> Str(<<"p","t">>), alpha_3 |-> Str(<<"p","o","r">>), bibliographic |-> None, terminology |-> Str(<<"p","o","r">>)],
     [key |-> "PRA", alpha_2 |-> None, alpha_3 |-> Str(<<"p","r","a">>), bibliographic |-> None, terminology |-> Str(<<"p","r","a">>)],
     [key |-> "PRO", alpha_2 |-> None, alpha_3 |-> Str(<<"p","r","o">>), bibliographic |-> None, terminology |-> Str(<<"p","r","o">>)],
     [key |-> "PUS", alpha_2 |-> Str(<<"p","s">>), alpha_3 |-> Str(<<"p","u","s">>), bibliographic |-> None, terminology |-> Str(<<"p","u","s">>)],
     [key |-> "QUE", alpha_2 |-> Str(<<"q","u">>), alpha_3 |-> Str(<<"q","u","e">>), bibliographic |-> None, terminology |-> Str(<<"q","u","e">>)],
     [key |-> "RAJ", alpha_2 |-> None, alpha_3 |-> Str(<<"r","a","j">>), bibliographic |-> None, terminology |-> Str(<<"r","a","j">>)],
     [key |-> "RAP", alpha_2 |-> None, alpha_3 |-> Str(<<"r","a","p">>), bibliographic |-> None, terminology |-> Str(<<"r","a","p">>)],
     [key |-> "RAR", alpha_2 |-> None, alpha_3 |-> Str(<<"r","a","r">>), bibliographic |-> None, terminology |-> Str(<<"r","a","r">>)],
     [key |-> "ROA", alpha_2 |-> None, alpha_3 |-> Str(<<"r","o","a">>), bibliographic |-> None, terminology |-> Str(<<"r","o","a">>)],
     [key |-> "ROH", alpha_2 |-> Str(<<"r","m">>), alpha_3 |-> Str(<<"r","o","h">>), bibliographic |-> None, terminology |-> Str(<<"r","o","h">>)],
     [key |-> "ROM", alpha_2 |-> None, alpha_3 |-> Str(<<"r","o","m">>), bibliographic |-> None, terminology |-> Str(<<"r","o","m">>)],
     [key |-> "RUM", alpha_2 |-> Str(<<"r","o">>), alpha_3 |-> Str(<<"r","u","m">>), bibliographic |-> Str(<<"r","u","m">>), terminology |-> Str(<<"r","o","n">>)],
     [key |-> "RON", alpha_2 |-> Str(<<"r","o">>), alpha_3 |-> Str(<<"r","o","n">>), bibliographic |-> Str(<<"r","u","m">>), terminology |-> Str(<<"r","o","n">>)],
     [key |-> "RUN", alpha_2 |-> Str(<<"r","n">>), alpha_3 |-> Str(<<"r","u","n">>), bibliographic |-> None, terminology |-> Str(<<"r","u","n">>)],
     [key |-> "RUP", alpha_2 |-> None, alpha_3 |-> Str(<<"r","u","p">>), bibliographic |-> None, terminology |-> Str(<<"r","u","p">>)],
     [key |-> "RUS", alpha_2 |-> Str(<<"r","u">>), alpha_3 |-> Str(<<"r","u","s">>), bibliographic |-> None, terminology |-> Str(<<"r","u","s">>)],
     [key |-> "SAD", alpha_2 |-> None, alpha_3 |-> Str(<<"s","a","d">>), bibliographic |-> None, terminology |-> Str(<<"s","a","d">>)],
     [key |-> "SAG", alpha_2 |-> Str(<<"s","g">>), alpha_3 |-> Str(<<"s","a","g">>), bibliographic |-> None, terminology |-> Str(<<"s","a","g">>)],
     [key |-> "SAH", alpha_2 |-> None, alpha_3 |-> Str(<<"s","a","h">>), bibliographic |-> None, terminology |-> Str(<<"s","a","h">>)],
     [key |-> "SAI", alpha_2 |-> None, alpha_3 |-> Str(<<"s","a","i">>), bibliographic |-> None, terminology |-> Str(<<"s","a","i">>)],
     [key |-> "SAL", alpha_2 |-> None, alpha_3 |-> Str(<<"s","a","l">>), bibliographic |-> None, terminology |-> Str(<<"s","a","l">>)],
     [key |-> "SAM", alpha_2 |-> None, alpha_3 |-> Str(<<"s","a","m">>), bibliographic |-> None, terminology |-> Str(<<"s","a","m">>)],
     [key |-> "SAN", alpha_2 |-> Str(<<"s","a">>), alpha_3 |-> Str(<<"s","a","n">>), bibliographic |-> None, terminology |-> Str(<<"s","a","n">>)],
     [key |-> "SAS", alpha_2 |-> None, alpha_3 |-> Str(<<"s","a","s">>), bibliographic |-> None, terminology |-> Str(<<"s","a","s">>)],
     [key |-> "SAT", alpha_2 |-> None, alpha_3 |-> Str(<<"s","a","t">>), bibliographic |-> None, terminology |-> Str(<<"s","a","t">>)],
     [key |-> "SCN", alpha_2 |-> None, alpha_3 |-> Str(<<"s","c","n">>), bibliographic |-> None, terminology |-> Str(<<"s","c","n">>)],
     [key |-> "SCO", alpha_2 |-> None, alpha_3 |-> Str(<<"s","c","o">>), bibliographic |-> None, terminology |-> Str(<<"s","c","o">>)],
     [key |-> "SEL", alpha_2 |-> None, alpha_3 |-> Str(<<"s","e","l">>), bibliographic |-> None, terminology |-> Str(<<"s","e","l">>)],
     [key |-> "SEM", alpha_2 |-> None, alpha_3 |-> Str(<<"s","e","m">>), bibliographic |-> None, terminology |-> Str(<<"s","e","m">>)],
     [key |-> "SGA", alpha_2 |-> None, alpha_3 |-> Str(<<"s","g","a">>), bibliographic |-> None, terminology |-> Str(<<"s","g","a">>)],
     [key |-> "SGN", alpha_2 |-> None, alpha_3 |-> Str(<<"s","g","n">>), bibliographic |-> None, terminology |-> Str(<<"s","g","n">>)],
     [key |-> "SHN", alpha_2 |-> None, alpha_3 |-> Str(<<"s","h","n">>), bibliographic |-> None, terminology |-> Str(<<"s","h","n">>)],
     [key |-> "SID", alpha_2 |-> None, alpha_3 |-> Str(<<"s","i","d">>), bibliographic |-> None, terminology |-> Str(<<"s","i","d">>)],
     [key |-> "SIN", alpha_2 |-> Str(<<"s","i">>), alpha_3 |-> Str(<<"s","i","n">>), bibliographic |-> None, terminology |-> Str(<<"s","i","n">>)],
     [key |-> "SIO", alpha_2 |-> None, alpha_3 |-> Str(<<"s","i","o">>), bibliographic |-> None, terminology |-> Str(<<"s","i","o">>)],
     [key |-> "SIT", alpha_2 |-> None, alpha_3 |-> Str(<<"s","i","t">>), bibliographic |-> None, terminology |-> Str(<<"s","i","t">>)],
     [key |-> "SLA", alpha_2 |-> None, alpha_3 |-> Str(<<"s","l","a">>), bibliographic |-> None, terminology |-> Str(<<"s","l","a">>)],
     [key |-> "SLO", alpha_2 |-> Str(<<"s","k">>), alpha_3 |-> Str(<<"s","l","o">>), bibliographic |-> Str(<<"s","l","o">>), terminology |-> Str(<<"s","l","k">>)],
     [key |-> "SLK", alpha_2 |-> Str(<<"s","k">>), alpha_3 |-> Str(<<"s","l","k">>), bibliographic |-> Str(<<"s","l","o">>), terminology |-> Str(<<"s","l","k">>)],
     [key |-> "SLV", alpha_2 |-> Str(<<"s","l">>), alpha_3 |-> Str(<<"s","l","v">>), bibliographic |-> None, terminology |-> Str(<<"s","l","v">>)],
     [key |-> "SMA", alpha_2 |-> None, alpha_3 |-> Str(<<"s","m","a">>), bibliographic |-> None, terminology |-> Str(<<"s","m","a">>)],
     [key |-> "SME", alpha_2 |-> Str(<<"s","e">>), alpha_3 |-> Str(<<"s","m","e">>), bibliographic |-> None, terminology |-> Str(<<"s","m","e">>)],
     [key |-> "SMI", alpha_2 |-> None, alpha_3 |-> Str(<<"s","m","i">>), bibliographic |-> None, terminology |-> Str(<<"s","m","i">>)],
     [key |-> "SMJ", alpha_2 |-> None, alpha_3 |-> Str(<<"s","m","j">>), bibliographic |-> None, terminology |-> Str(<<"s","m","j">>)],
     [key |-> "SMN", alpha_2 |-> None, alpha_3 |-> Str(<<"s","m","n">>), bibliographic |-> None, terminology |-> Str(<<"s","m","n">>)],
     [key |-> "SMO", alpha_2 |-> Str(<<"s","m">>), alpha_3 |-> Str(<<"s","m","o">>), bibliographic |-> None, terminology |-> Str(<<"s","m","o">>)],
     [key |-> "SMS", alpha_2 |-> None, alpha_3 |-> Str(<<"s","m","s">>), bibliographic |-> None, terminology |-> Str(<<"s","m","s">>)],
     [key |-> "SNA", alpha_2 |-> Str(<<"s","n">>), alpha_3 |-> Str(<<"s","n","a">>), bibliographic |-> None, terminology |-> Str(<<"s","n","a">>)],
     [key |-> "SND", alpha_2 |-> Str(<<"s","d">>), alpha_3 |-> Str(<<"s","n","d">>), bibliographic |-> None, terminology |-> Str(<<"s","n","d">>)],
     [key |-> "SNK", alpha_2 |-> None, alpha_3 |-> Str(<<"s","n","k">>), bibliographic |-> None, terminology |-> Str(<<"s","n","k">>)],
     [key |-> "SOG", alpha_2 |-> None, alpha_3 |-> Str(<<"s","o","g">>), bibliographic |-> None, terminology |-> Str(<<"s","o","g">>)],
     [key |-> "SOM", alpha_2 |-> Str(<<"s","o">>), alpha_3 |-> Str(<<"s","o","m">>), bibliographic |-> None, terminology |-> Str(<<"s","o","m">>)],
     [key |-> "SON", alpha_2 |-> None, alpha_3 |-> Str(<<"s","o","n">>), bibliographic |-> None, terminology |-> Str(<<"s","o","n">>)],
     [key |-> "SOT", alpha_2 |-> Str(<<"s","t">>), alpha_3 |-> Str(<<"s","o","t">>), bibliographic |-> None, terminology |-> Str(<<"s","o","t">>)],
     [key |-> "SPA", alpha_2 |-> Str(<<"e","s">>), alpha_3 |-> Str(<<"s","p","a">>), bibliographic |-> None, terminology |-> Str(<<"s","p","a">>)],
     [key |-> "SRD", alpha_2 |-> Str(<<"s","c">>), alpha_3 |-> Str(<<"s","r","d">>), bibliographic |-> None, terminology |-> Str(<<"s","r","d">>)],
     [key |-> "SRN", alpha_2 |-> None, alpha_3 |-> Str(<<"s","r","n">>), bibliographic |-> None, terminology |-> Str(<<"s","r","n">>)],
     [key |-> "SRP", alpha_2 |-> Str(<<"s","r">>), alpha_3 |-> Str(<<"s","r","p">>), bibliographic |-> None, terminology |-> Str(<<"s","r","p">>)],
     [key |-> "SRR", alpha_2 |-> None, alpha_3 |-> Str(<<"s","r","r">>), bibliographic |-> None, terminology |-> Str(<<"s","r","r">>)],
     [key |-> "SSA", alpha_2 |-> None, alpha_3 |-> Str(<<"s","s","a">>), bibliographic |-> None, terminology |-> Str(<<"s","s","a">>)],
     [key |-> "SSW", alpha_2 |-> Str(<<"s","s">>), alpha_3 |-> Str(<<"s","s","w">>), bibliographic |-> None, terminology |-> Str(<<"s","s","w">>)],
     [key |-> "SUK", alpha_2 |-> None, alpha_3 |-> Str(<<"s","u","k">>), bibliographic |-> None, terminology |-> Str(<<"s","u","k">>)],
     [key |-> "SUN", alpha_2 |-> Str(<<"s","u">>), alpha_3 |-> Str(<<"s","u","n">>), bibliographic |-> None, terminology |-> Str(<<"s","u","n">>)],
     [key |-> "SUS", alpha_2 |-> None, alpha_3 |-> Str(<<"s","u","s">>), bibliographic |-> None, terminology |-> Str(<<"s","u","s">>)],
     [key |-> "SUX", alpha_2 |-> None, alpha_3 |-> Str(<<"s","u","x">>), bibliographic |-> None, terminology |-> Str(<<"s","u","x">>)],
     [key |-> "SWA", alpha_2 |-> Str(<<"s","w">>), alpha_3 |-> Str(<<"s","w","a">>), bibliographic |-> None, terminology |-> Str(<<"s","w","a">>)],
     [key |-> "SWE", alpha_2 |-> Str(<<"s","v">>), alpha_3 |-> Str(<<"s","w","e">>), bibliographic |-> None, terminology |-> Str(<<"s","w","e">>)],
     [key |-> "SYC", alpha_2 |-> None, alpha_3 |-> Str(<<"s","y","c">>), bibliographic |-> None, terminology |-> Str(<<"s","y","c">>)],
     [key |-> "SYR", alpha_2 |-> None, alpha_3 |-> Str(<<"s","y","r">>), bibliographic |-> None, terminology |-> Str(<<"s","y","r">>)],
     [key |-> "TAH", alpha_2 |-> Str(<<"t","y">>), alpha_3 |-> Str(<<"t","a","h">>), bibliographic |-> None, terminology |-> Str(<<"t","a","h">>)],
     [key |-> "TAI", alpha_2 |-> None, alpha_3 |-> Str(<<"t","a","i">>), bibliographic |-> None, terminology |-> Str(<<"t","a","i">>)],
     [key |-> "TAM", alpha_2 |-> Str(<<"t","a">>), alpha_3 |-> Str(<<"t","a","m">>), bibliographic |-> None, terminology |-> Str(<<"t","a","m">>)],
     [key |-> "TAT", alpha_2 |-> Str(<<"t","t">>), alpha_3 |-> Str(<<"t","a","t">>), bibliographic |-> None, terminology |-> Str(<<"t","a","t">>)],
     [key |-> "TEL", alpha_2 |-> Str(<<"t","e">>), alpha_3 |-> Str(<<"t","e","l">>), bibliographic |-> None, terminology |-> Str(<<"t","e","l">>)],
     [key |-> "TEM", alpha_2 |-> None, alpha_3 |-> Str(<<"t","e","m">>), bibliographic |-> None, terminology |-> Str(<<"t","e","m">>)],
     [key |-> "TER", alpha_2 |-> None, alpha_3 |-> Str(<<"t","e","r">>), bibliographic |-> None, terminology |-> Str(<<"t","e","r">>)],
     [key |-> "TET", alpha_2 |-> None, alpha_3 |-> Str(<<"t","e","t">>), bibliographic |-> None, terminology |-> Str(<<"t","e","t">>)],
     [key |-> "TGK", alpha_2 |-> Str(<<"t","g">>), alpha_3 |-> Str(<<"t","g","k">>), bibliographic |-> None, terminology |-> Str(<<"t","g","k">>)],
     [key |-> "TGL", alpha_2 |-> Str(<<"t","l">>), alpha_3 |-> Str(<<"t","g","l">>), bibliographic |-> None, terminology |-> Str(<<"t","g","l">>)],
     [key |-> "THA", alpha_2 |-> Str(<<"t","h">>), alpha_3 |-> Str(<<"t","h","a">>), bibliographic |-> None, terminology |-> Str(<<"t","h","a">>)],
     [key |-> "TIG", alpha_2 |-> None, alpha_3 |-> Str(<<"t","i","g">>), bibliographic |-> None, terminology |-> Str(<<"t","i","g">>)],
     [key |-> "TIR", alpha_2 |-> Str(<<"t","i">>), alpha_3 |-> Str(<<"t","i","r">>), bibliographic |-> None, terminology |-> Str(<<"t","i","r">>)],
     [key |-> "TIV", alpha_2 |-> None, alpha_3 |-> Str(<<"t","i","v">>), bibliographic |-> None, terminology |-> Str(<<"t","i","v">>)],
     [key |-> "TKL", alpha_2 |-> None, alpha_3 |-> Str(<<"t","k","l">>), bibliographic |-> None, terminology |-> Str(<<"t","k","l">>)],
     [key |-> "TLH", alpha_2 |-> None, alpha_3 |-> Str(<<"t","l","h">>), bibliographic |-> None, terminology |-> Str(<<"t","l","h">>)],
     [key |-> "TLI", alpha_2 |-> None, alpha_3 |-> Str(<<"t","l","i">>), bibliographic |-> None, terminology |-> Str(<<"t","l","i">>)],
     [key |-> "TMH", alpha_2 |-> None, alpha_3 |-> Str(<<"t","m","h">>), bibliographic |-> None, terminology |-> Str(<<"t","m","h">>)],
     [key |-> "TOG", alpha_2 |-> None, alpha_3 |-> Str(<<"t","o","g">>), bibliographic |-> None, terminology |-> Str(<<"t","o","g">>)],
     [key |-> "TON", alpha_2 |-> Str(<<"t","o">>), alpha_3 |-> Str(<<"t","o","n">>), bibliographic |-> None, terminology |-> Str(<<"t","o","n">>)],
     [key |-> "TPI", alpha_2 |-> None, alpha_3 |-> Str(<<"t","p","i">>), bibliographic |-> None, terminology |-> Str(<<"t","p","i">>)],
     [key |-> "TSI", alpha_2 |-> None, alpha_3 |-> Str(<<"t","s","i">>), bibliographic |-> None, terminology |-> Str(<<"t","s","i">>)],
     [key |-> "TSN", alpha_2 |-> Str(<<"t","n">>), alpha_3 |-> Str(<<"t","s","n">>), bibliographic |-> None, terminology |-> Str(<<"t","s","n">>)],
     [key |-> "TSO", alpha_2 |-> Str(<<"t","s">>), alpha_3 |-> Str(<<"t","s","o">>), bibliographic |-> None, terminology |-> Str(<<"t","s","o">>)],
     [key |-> "TUK", alpha_2 |-> Str(<<"t","k">>), alpha_3 |-> Str(<<"t","u","k">>), bibliographic |-> None, terminology |-> Str(<<"t","u","k">>)],
     [key |-> "TUM", alpha_2 |-> None, alpha_3 |-> Str(<<"t","u","m">>), bibliographic |-> None, terminology |-> Str(<<"t","u","m">>)],
     [key |-> "TUP", alpha_2 |-> None, alpha_3 |-> Str(<<"t","u","p">>), bibliographic |-> None, terminology |-> Str(<<"t","u","p">>)],
     [key |-> "TUR", alpha_2 |-> Str(<<"t","r">>), alpha_3 |-> Str(<<"t","u","r">>), bibliographic |-> None, terminology |-> Str(<<"t","u","r">>)],
     [key |-> "TUT", alpha_2 |-> None, alpha_3 |-> Str(<<"t","u","t">>), bibliographic |-> None, terminology |-> Str(<<"t","u","t">>)],
     [key |-> "TVL", alpha_2 |-> None, alpha_3 |-> Str(<<"t","v","l">>), bibliographic |-> None, terminology |-> Str(<<"t","v","l">>)],
     [key |-> "TWI", alpha_2 |-> Str(<<"t","w">>), alpha_3 |-> Str(<<"t","w","i">>), bibliographic |-> None, terminology |-> Str(<<"t","w","i">>)],
     [key |-> "TYV", alpha_2 |-> None, alpha_3 |-> Str(<<"t","y","v">>), bibliographic |-> None, terminology |-> Str(<<"t","y","v">>)],
     [key |-> "UDM", alpha_2 |-> None, alpha_3 |-> Str(<<"u","d","m">>), bibliographic |-> None, terminology |-> Str(<<"u","d","m">>)],
     [key |-> "UGA", alpha_2 |-> None, alpha_3 |-> Str(<<"u","g","a">>), bibliographic |-> None, terminology |-> Str(<<"u","g","a">>)],
     [key |-> "UIG", alpha_2 |-> Str(<<"u","g">>), alpha_3 |-> Str(<<"u","i","g">>), bibliographic |-> None, terminology |-> Str(<<"u","i","g">>)],
     [key |-> "UKR", alpha_2 |-> Str(<<"u","k">>), alpha_3 |-> Str(<<"u","k","r">>), bibliographic |-> None, terminology |-> Str(<<"u","k","r">>)],
     [key |-> "UMB", alpha_2 |-> None, alpha_3 |-> Str(<<"u","m","b">>), bibliographic |-> None, terminology |-> Str(<<"u","m","b">>)],
     [key |-> "UND", alpha_2 |-> None, alpha_3 |-> Str(<<"u","n","d">>), bibliographic |-> None, terminology |-> Str(<<"u","n","d">>)],
     [key |-> "URD", alpha_2 |-> Str(<<"u","r">>), alpha_3 |-> Str(<<"u","r","d">>), bibliographic |-> None, terminology |-> Str(<<"u","r","d">>)],
     [key |-> "UZB", alpha_2 |-> Str(<<"u","z">>), alpha_3 |-> Str(<<"u","z","b">>), bibliographic |-> None, terminology |-> Str(<<"u","z","b">>)],
     [key |-> "VAI", alpha_2 |-> None, alpha_3 |-> Str(<<"v","a","i">>), bibliographic |-> None, terminology |-> Str(<<"v","a","i">>)],
     [key |-> "VEN", alpha_2 |-> Str(<<"v","e">>), alpha_3 |-> Str(<<"v","e","n">>), bibliographic |-> None, terminology |-> Str(<<"v","e","n">>)],
     [key |-> "VIE", alpha_2 |-> Str(<<"v","i">>), alpha_3 |-> Str(<<"v","i","e">>), bibliographic |-> None, terminology |-> Str(<<"v","i","e">>)],
     [key |-> "VOL", alpha_2 |-> Str(<<"v","o">>), alpha_3 |-> Str(<<"v","o","l">>), bibliographic |-> None, terminology |-> Str(<<"v","o","l">>)],
     [key |-> "VOT", alpha_2 |-> None, alpha_3 |-> Str(<<"v","o","t">>), bibliographic |-> None, terminology |-> Str(<<"v","o","t">>)],
     [key |-> "WAK", alpha_2 |-> None, alpha_3 |-> Str(<<"w","a","k">>), bibliographic |-> None, terminology |-> Str(<<"w","a","k">>)],
     [key |-> "WAL", alpha_2 |-> None, alpha_3 |-> Str(<<"w","a","l">>), bibliographic |-> None, terminology |-> Str(<<"w","a","l">>)],
     [key |-> "WAR", alpha_2 |-> None, alpha_3 |-> Str(<<"w","a","r">>), bibliographic |-> None, terminology |-> Str(<<"w","a","r">>)],
     [key |-> "WAS", alpha_2 |-> None, alpha_3 |-> Str(<<"w","a","s">>), bibliographic |-> None, terminology |-> Str(<<"w","a","s">>)],
     [key |-> "WEN", alpha_2 |-> None, alpha_3 |-> Str(<<"w","e","n">>), bibliographic |-> None, terminology |-> Str(<<"w","e","n">>)],
     [key |-> "WLN", alpha_2 |-> Str(<<"w","a">>), alpha_3 |-> Str(<<"w","l","n">>), bibliographic |-> None, terminology |-> Str(<<"w","l","n">>)],
     [key |-> "WOL", alpha_2 |-> Str(<<"w","o">>), alpha_3 |-> Str(<<"w","o","l">>), bibliographic |-> None, terminology |-> Str(<<"w","o","l">>)],
     [key |-> "XAL", alpha_2 |-> None, alpha_3 |-> Str(<<"x","a","l">>), bibliographic |-> None, terminology |-> Str(<<"x","a","l">>)],
     [key |-> "XHO", alpha_2 |-> Str(<<"x","h">>), alpha_3 |-> Str(<<"x","h","o">>), bibliographic |-> None, terminology |-> Str(<<"x","h","o">>)],
     [key |-> "YAO", alpha_2 |-> None, alpha_3 |-> Str(<<"y","a","o">>), bibliographic |-> None, terminology |-> Str(<<"y","a","o">>)],
     [key |-> "YAP", alpha_2 |-> None, alpha_3 |-> Str(<<"y","a","p">>), bibliographic |-> None, terminology |-> Str(<<"y","a","p">>)],
     [key |-> "YID", alpha_2 |-> Str(<<"y","i">>), alpha_3 |-> Str(<<"y","i","d">>), bibliographic |-> None, terminology |-> Str(<<"y","i","d">>)],
     [key |-> "YOR", alpha_2 |-> Str(<<"y","o">>), alpha_3 |-> Str(<<"y","o","r">>), bibliographic |-> None, terminology |-> Str(<<"y","o","r">>)],
     [key |-> "YPK", alpha_2 |-> None, alpha_3 |-> Str(<<"y","p","k">>), bibliographic |-> None, terminology |-> Str(<<"y","p","k">>)],
     [key |-> "ZAP", alpha_2 |-> None, alpha_3 |-> Str(<<"z","a","p">>), bibliographic |-> None, terminology |-> Str(<<"z","a","p">>)],
     [key |-> "ZBL", alpha_2 |-> None, alpha_3 |-> Str(<<"z","b","l">>), bibliographic |-> None, terminology |-> Str(<<"z","b","l">>)],
     [key |-> "ZEN", alpha_2 |-> None, alpha_3 |-> Str(<<"z","e","n">>), bibliographic |-> None, terminology |-> Str(<<"z","e","n">>)],
     [key |-> "ZGH", alpha_2 |-> None, alpha_3 |-> Str(<<"z","g","h">>), bibliographic |-> None, terminology |-> Str(<<"z","g","h">>)],
     [key |-> "ZHA", alpha_2 |-> Str(<<"z","a">>), alpha_3 |-> Str(<<"z","h","a">>), bibliographic |-> None, terminology |-> Str(<<"z","h","a">>)],
     [key |-> "ZND", alpha_2 |-> None, alpha_3 |-> Str(<<"z","n","d">>), bibliographic |-> None, terminology |-> Str(<<"z","n","d">>)],
     [key |-> "ZUL", alpha_2 |-> Str(<<"z","u">>), alpha_3 |-> Str(<<"z","u","l">>), bibliographic |-> None, terminology |-> Str(<<"z","u","l">>)],
     [key |-> "ZUN", alpha_2 |-> None, alpha_3 |-> Str(<<"z","u","n">>), bibliographic |-> None, terminology |-> Str(<<"z","u","n">>)],
     [key |-> "ZXX", alpha_2 |-> None, alpha_3 |-> Str(<<"z","x","x">>), bibliographic |-> None, terminology |-> Str(<<"z","x","x">>)],
     [key |-> "ZZA", alpha_2 |-> None, alpha_3 |-> Str(<<"z","z","a">>), bibliographic |-> None, terminology |-> Str(<<"z","z","a">>)] >>

MacroLanguageDecls ==
  << [key |-> "FAT", m_id |-> Str(<<"a","k","a">>), i_status |-> Str(<<"A">>)],
     [key |-> "TWI", m_id |-> Str(<<"a","k","a">>), i_status |-> Str(<<"A">>)],
     [key |-> "AAO", m_id |-> Str(<<"a","r","a">>), i_status |-> Str(<<"A">>)],
     [key |-> "ABH", m_id |-> Str(<<"a","r","a">>), i_status |-> Str(<<"A">>)],
     [key |-> "ABV", m_id |-> Str(<<"a","r","a">>), i_status |-> Str(<<"A">>)],
     [key |-> "ACM", m_id |-> Str(<<"a","r","a">>), i_status |-> Str(<<"A">>)],
     [key |-> "ACQ", m_id |-> Str(<<"a","r","a">>), i_status |-> Str(<<"A">>)],
     [key |-> "ACW", m_id |-> Str(<<"a","r","a">>), i_status |-> Str(<<"A">>)],
     [key |-> "ACX", m_id |-> Str(<<"a","r","a">>), i_status |-> Str(<<"A">>)],
     [key |-> "ACY", m_id |-> Str(<<"a","r","a">>), i_status |-> Str(<<"A">>)],
     [key |-> "ADF", m_id |-> Str(<<"a","r","a">>), i_status |-> Str(<<"A">>)],
     [key |-> "AEB", m_id |-> Str(<<"a","r","a">>), i_status |-> Str(<<"A">>)],
     [key |-> "AEC", m_id |-> Str(<<"a","r","a">>), i_status |-> Str(<<"A">>)],
     [key |-> "AFB", m_id |-> Str(<<"a","r","a">>), i_status |-> Str(<<"A">>)],
     [key |-> "AJP", m_id |-> Str(<<"a","r","a">>), i_status |-> Str(<<"R">>)],
     [key |-> "APC", m_id |-> Str(<<"a","r","a">>), i_status |-> Str(<<"A">>)],
     [key |-> "APD", m_id |-> Str(<<"a","r","a">>), i_status |-> Str(<<"A">>)],
     [key |-> "ARB", m_id |-> Str(<<"a","r","a">>), i_status |-> Str(<<"A">>)],
     [key |-> "ARQ", m_id |-> Str(<<"a","r","a">>), i_status |-> Str(<<"A">>)],
     [key |-> "ARS", m_id |-> Str(<<"a","r","a">>), i_status |-> Str(<<"A">>)],
     [key |-> "ARY", m_id |-> Str(<<"a","r","a">>), i_status |-> Str(<<"A">>)],
     [key |-> "ARZ", m_id |-> Str(<<"a","r","a">>), i_status |-> Str(<<"A">>)],
     [key |-> "AUZ", m_id |-> Str(<<"a","r","a">>), i_status |-> Str(<<"A">>)],
     [key |-> "AVL", m_id |-> Str(<<"a","r","a">>), i_status |-> Str(<<"A">>)],
     [key |-> "AYH", m_id |-> Str(<<"a","r","a">>), i_status |-> Str(<<"A">>)],
     [key |-> "AYL", m_id |-> Str(<<"a","r","a">>), i_status |-> Str(<<"A">>)],
     [key |-> "AYN", m_id |-> Str(<<"a","r","a">>), i_status |-> Str(<<"A">>)],
     [key |-> "AYP", m_id |-> Str(<<"a","r","a">>), i_status |-> Str(<<"A">>)],
     [key |-> "BBZ", m_id |-> Str(<<"a","r","a">>), i_status |-> Str(<<"R">>)],
     [key |-> "PGA", m_id |-> Str(<<"a","r","a">>), i_status |-> Str(<<"A">>)],
     [key |-> "SHU", m_id |-> Str(<<"a","r","a">>), i_status |-> Str(<<"A">>)],
     [key |-> "SSH", m_id |-> Str(<<"a","r","a">>), i_status |-> Str(<<"A">>)],
     [key |-> "AYC", m_id |-> Str(<<"a","y","m">>), i_status |-> Str(<<"A">>)],
     [key |-> "AYR", m_id |-> Str(<<"a","y","m">>), i_status |-> Str(<<"A">>)],
     [key |-> "AZB", m_id |-> Str(<<"a","z","e">>), i_status |-> Str(<<"A">>)],
     [key |-> "AZJ", m_id |-> Str(<<"a","z","e">>), i_status |-> Str(<<"A">>)],
     [key |-> "BCC", m_id |-> Str(<<"b","a","l">>), i_status |-> Str(<<"A">>)],
     [key |-> "BGN", m_id |-> Str(<<"b","a","l">>), i_status |-> Str(<<"A">>)],
     [key |-> "BGP", m_id |-> Str(<<"b","a","l">>), i_status |-> Str(<<"A">>)],
     [key |-> "BCL", m_id |-> Str(<<"b","i","k">>), i_status |-> Str(<<"A">>)],
     [key |-> "BHK", m_id |-> Str(<<"b","i","k">>), i_status |-> Str(<<"R">>)],
     [key |-> "BLN", m_id |-> Str(<<"b","i","k">>), i_status |-> Str(<<"A">>)],
     [key |-> "BTO", m_id |-> Str(<<"b","i","k">>), i_status |-> Str(<<"A">>)],
     [key |-> "CTS", m_id |-> Str(<<"b","i","k">>), i_status |-> Str(<<"A">>)],
     [key |-> "FBL", m_id |-> Str(<<"b","i","k">>), i_status |-> Str(<<"A">>)],
     [key |-> "LBL", m_id |-> Str(<<"b","i","k">>), i_status |-> Str(<<"A">>)],
     [key |-> "RBL", m_id |-> Str(<<"b","i","k">>), i_status |-> Str(<<"A">>)],
     [key |-> "UBL", m_id |-> Str(<<"b","i","k">>), i_status |-> Str(<<"A">>)],
     [key |-> "EBK", m_id |-> Str(<<"b","n","c">>), i_status |-> Str(<<"A">>)],
     [key |-> "LBK", m_id |-> Str(<<"b","n","c">>), i_status |-> Str(<<"A">>)],
     [key |-> "OBK", m_id |-> Str(<<"b","n","c">>), i_status |-> Str(<<"A">>)],
     [key |-> "RBK", m_id |-> Str(<<"b","n","c">>), i_status |-> Str(<<"A">>)],
     [key |-> "VBK", m_id |-> Str(<<"b","n","c">>), i_status |-> Str(<<"A">>)],
     [key |-> "BXM", m_id |-> Str(<<"b","u","a">>), i_status |-> Str(<<"A">>)],
     [key |-> "BXR", m_id |-> Str(<<"b","u","a">>), i_status |-> Str(<<"A">>)],
     [key |-> "BXU", m_id |-> Str(<<"b","u","a">>), i_status |-> Str(<<"A">>)],
     [key |-> "MHR", m_id |-> Str(<<"c","h","m">>), i_status |-> Str(<<"A">>)],
     [key |-> "MRJ", m_id |-> Str(<<"c","h","m">>), i_status |-> Str(<<"A">>)],
     [key |-> "CRJ", m_id |-> Str(<<"c","r","e">>), i_status |-> Str(<<"A">>)],
     [key |-> "CRK", m_id |-> Str(<<"c","r","e">>), i_status |-> Str(<<"A">>)],
     [key |-> "CRL", m_id |-> Str(<<"c","r","e">>), i_status |-> Str(<<"A">>)],
     [key |-> "CRM", m_id |-> Str(<<"c","r","e">>), i_status |-> Str(<<"A">>)],
     [key |-> "CSW", m_id |-> Str(<<"c","r","e">>), i_status |-> Str(<<"A">>)],
     [key |-> "CWD", m_id |-> Str(<<"c","r","e">>), i_status |-> Str(<<"A">>)],
     [key |-> "UMU", m_id |-> Str(<<"d","e","l">>), i_status |-> Str(<<"A">>)],
     [key |-> "UNM", m_id |-> Str(<<"d","e","l">>), i_status |-> Str(<<"A">>)],
     [key |-> "SCS", m_id |-> Str(<<"d","e","n">>), i_status |-> Str(<<"A">>)],
     [key |-> "XSL", m_id |-> Str(<<"d","e","n">>), i_status |-> Str(<<"A">>)],
     [key |-> "DIB", m_id |-> Str(<<"d","i","n">>), i_status |-> Str(<<"A">>)],
     [key |-> "DIK", m_id |-> Str(<<"d","i","n">>), i_status |-> Str(<<"A">>)],
     [key |-> "DIP", m_id |-> Str(<<"d","i","n">>), i_status |-> Str(<<"A">>)],
     [key |-> "DIW", m_id |-> Str(<<"d","i","n">>), i_status |-> Str(<<"A">>)],
     [key |-> "DKS", m_id |-> Str(<<"d","i","n">>), i_status |-> Str(<<"A">>)],
     [key |-> "DGO", m_id |-> Str(<<"d","o","i">>), i_status |-> Str(<<"A">>)],
     [key |-> "XNR", m_id |-> Str(<<"d","o","i">>), i_status |-> Str(<<"A">>)],
     [key |-> "EKK", m_id |-> Str(<<"e","s","t">>), i_status |-> Str(<<"A">>)],
     [key |-> "VRO", m_id |-> Str(<<"e","s","t">>), i_status |-> Str(<<"A">>)],
     [key |-> "PES", m_id |-> Str(<<"f","a","s">>), i_status |-> Str(<<"A">>)],
     [key |-> "PRS", m_id |-> Str(<<"f","a","s">>), i_status |-> Str(<<"A">>)],
     [key |-> "FFM", m_id |-> Str(<<"f","u","l">>), i_status |-> Str(<<"A">>)],
     [key |-> "FUB", m_id |-> Str(<<"f","u","l">>), i_status |-> Str(<<"A">>)],
     [key |-> "FUC", m_id |-> Str(<<"f","u","l">>), i_status |-> Str(<<"A">>)],
     [key |-> "FUE", m_id |-> Str(<<"f","u","l">>), i_status |-> Str(<<"A">>)],
     [key |-> "FUF", m_id |-> Str(<<"f","u","l">>), i_status |-> Str(<<"A">>)],
     [key |-> "FUH", m_id |-> Str(<<"f","u","l">>), i_status |-> Str(<<"A">>)],
     [key |-> "FUI", m_id |-> Str(<<"f","u","l">>), i_status |-> Str(<<"A">>)],
     [key |-> "FUQ", m_id |-> Str(<<"f","u","l">>), i_status |-> Str(<<"A">>)],
     [key |-> "FUV", m_id |-> Str(<<"f","u","l">>), i_status |-> Str(<<"A">>)],
     [key |-> "BDT", m_id |-> Str(<<"g","b","a">>), i_status |-> Str(<<"A">>)],
     [key |-> "GBP", m_id |-> Str(<<"g","b","a">>), i_status |-> Str(<<"A">>)],
     [key |-> "GBQ", m_id |-> Str(<<"g","b","a">>), i_status |-> Str(<<"A">>)],
     [key |-> "GMM", m_id |-> Str(<<"g","b","a">>), i_status |-> Str(<<"A">>)],
     [key |-> "GSO", m_id |-> Str(<<"g","b","a">>), i_status |-> Str(<<"A">>)],
     [key |-> "GYA", m_id |-> Str(<<"g","b","a">>), i_status |-> Str(<<"A">>)],
     [key |-> "MDO", m_id |-> Str(<<"g","b","a">>), i_status |-> Str(<<"R">>)],
     [key |-> "ESG", m_id |-> Str(<<"g","o","n">>), i_status |-> Str(<<"A">>)],
     [key |-> "GGO", m_id |-> Str(<<"g","o","n">>), i_status |-> Str(<<"R">>)],
     [key |-> "GNO", m_id |-> Str(<<"g","o","n">>), i_status |-> Str(<<"A">>)],
     [key |-> "WSG", m_id |-> Str(<<"g","o","n">>), i_status |-> Str(<<"A">>)],
     [key |-> "GBO", m_id |-> Str(<<"g","r","b">>), i_status |-> Str(<<"A">>)],
     [key |-> "GEC", m_id |-> Str(<<"g","r","b">>), i_status |-> Str(<<"A">>)],
     [key |-> "GRJ", m_id |-> Str(<<"g","r","b">>), i_status |-> Str(<<"A">>)],
     [key |-> "GRV", m_id |-> Str(<<"g","r","b">>), i_status |-> Str(<<"A">>)],
     [key |-> "GRY", m_id |-> Str(<<"g","r","b">>), i_status |-> Str(<<"A">>)],
     [key |-> "GNW", m_id |-> Str(<<"g","r","n">>), i_status |-> Str(<<"A">>)],
     [key |-> "GUG", m_id |-> Str(<<"g","r","n">>), i_status |-> Str(<<"A">>)],
     [key |-> "GUI", m_id |-> Str(<<"g","r","n">>), i_status |-> Str(<<"A">>)],
     [key |-> "GUN", m_id |-> Str(<<"g","r","n">>), i_status |-> Str(<<"A">>)],
     [key |-> "NHD", m_id |-> Str(<<"g","r","n">>), i_status |-> Str(<<"A">>)],
     [key |-> "HAX", m_id |-> Str(<<"h","a","i">>), i_status |-> Str(<<"A">>)],
     [key |-> "HDN", m_id |-> Str(<<"h","a","i">>), i_status |-> Str(<<"A">>)],
     [key |-> "BOS", m_id |-> Str(<<"h","b","s">>), i_status |-> Str(<<"A">>)],
     [key |-> "CNR", m_id |-> Str(<<"h","b","s">>), i_status |-> Str(<<"A">>)],
     [key |-> "HRV", m_id |-> Str(<<"h","b","s">>), i_status |-> Str(<<"A">>)],
     [key |-> "SRP", m_id |-> Str(<<"h","b","s">>), i_status |-> Str(<<"A">>)],
     [key |-> "BLU", m_id |-> Str(<<"h","m","n">>), i_status |-> Str(<<"R">>)],
     [key |-> "CQD", m_id |-> Str(<<"h","m","n">>), i_status |-> Str(<<"A">>)],
     [key |-> "HEA", m_id |-> Str(<<"h","m","n">>), i_status |-> Str(<<"A">>)],
     [key |-> "HMA", m_id |-> Str(<<"h","m","n">>), i_status |-> Str(<<"A">>)],
     [key |-> "HMC", m_id |-> Str(<<"h","m","n">>), i_status |-> Str(<<"A">>)],
     [key |-> "HMD", m_id |-> Str(<<"h","m","n">>), i_status |-> Str(<<"A">>)],
     [key |-> "HME", m_id |-> Str(<<"h","m","n">>), i_status |-> Str(<<"A">>)],
     [key |-> "HMG", m_id |-> Str(<<"h","m","n">>), i_status |-> Str(<<"A">>)],
     [key |-> "HMH", m_id |-> Str(<<"h","m","n">>), i_status |-> Str(<<"A">>)],
     [key |-> "HMI", m_id |-> Str(<<"h","m","n">>), i_status |-> Str(<<"A">>)],
     [key |-> "HMJ", m_id |-> Str(<<"h","m","n">>), i_status |-> Str(<<"A">>)],
     [key |-> "HML", m_id |-> Str(<<"h","m","n">>), i_status |-> Str(<<"A">>)],
     [key |-> "HMM", m_id |-> Str(<<"h","m","n">>), i_status |-> Str(<<"A">>)],
     [key |-> "HMP", m_id |-> Str(<<"h","m","n">>), i_status |-> Str(<<"A">>)],
     [key |-> "HMQ", m_id |-> Str(<<"h","m","n">>), i_status |-> Str(<<"A">>)],
     [key |-> "HMS", m_id |-> Str(<<"h","m","n">>), i_status |-> Str(<<"A">>)],
     [key |-> "HMW", m_id |-> Str(<<"h","m","n">>), i_status |-> Str(<<"A">>)],
     [key |-> "HMY", m_id |-> Str(<<"h","m","n">>), i_status |-> Str(<<"A">>)],
     [key |-> "HMZ", m_id |-> Str(<<"h","m","n">>), i_status |-> Str(<<"A">>)],
     [key |-> "HNJ", m_id |-> Str(<<"h","m","n">>), i_status |-> Str(<<"A">>)],
     [key |-> "HRM", m_id |-> Str(<<"h","m","n">>), i_status |-> Str(<<"A">>)],
     [key |-> "HUJ", m_id |-> Str(<<"h","m","n">>), i_status |-> Str(<<"A">>)],
     [key |-> "MMR", m_id |-> Str(<<"h","m","n">>), i_status |-> Str(<<"A">>)],
     [key |-> "MUQ", m_id |-> Str(<<"h","m","n">>), i_status |-> Str(<<"A">>)],
     [key |-> "MWW", m_id |-> Str(<<"h","m","n">>), i_status |-> Str(<<"A">>)],
     [key |-> "SFM", m_id |-> Str(<<"h","m","n">>), i_status |-> Str(<<"A">>)],
     [key |-> "IKE", m_id |-> Str(<<"i","k","u">>), i_status |-> Str(<<"A">>)],
     [key |-> "IKT", m_id |-> Str(<<"i","k","u">>), i_status |-> Str(<<"A">>)],
     [key |-> "ESI", m_id |-> Str(<<"i","p","k">>), i_status |-> Str(<<"A">>)],
     [key |-> "ESK", m_id |-> Str(<<"i","p","k">>), i_status |-> Str(<<"A">>)],
     [key |-> "AJT", m_id |-> Str(<<"j","r","b">>), i_status |-> Str(<<"R">>)],
     [key |-> "AJU", m_id |-> Str(<<"j","r","b">>), i_status |-> Str(<<"A">>)],
     [key |-> "JYE", m_id |-> Str(<<"j","r","b">>), i_status |-> Str(<<"A">>)],
     [key |-> "YHD", m_id |-> Str(<<"j","r","b">>), i_status |-> Str(<<"A">>)],
     [key |-> "YUD", m_id |-> Str(<<"j","r","b">>), i_status |-> Str(<<"A">>)],
     [key |-> "KBY", m_id |-> Str(<<"k","a","u">>), i_status |-> Str(<<"A">>)],
     [key |-> "KNC", m_id |-> Str(<<"k","a","u">>), i_status |-> Str(<<"A">>)],
     [key |-> "KRT", m_id |-> Str(<<"k","a","u">>), i_status |-> Str(<<"A">>)],
     [key |-> "ENB", m_id |-> Str(<<"k","l","n">>), i_status |-> Str(<<"A">>)],
     [key |-> "EYO", m_id |-> Str(<<"k","l","n">>), i_status |-> Str(<<"A">>)],
     [key |-> "NIQ", m_id |-> Str(<<"k","l","n">>), i_status |-> Str(<<"A">>)],
     [key |-> "OKI", m_id |-> Str(<<"k","l","n">>), i_status |-> Str(<<"A">>)],
     [key |-> "PKO", m_id |-> Str(<<"k","l","n">>), i_status |-> Str(<<"A">>)],
     [key |-> "SGC", m_id |-> Str(<<"k","l","n">>), i_status |-> Str(<<"A">>)],
     [key |-> "SPY", m_id |-> Str(<<"k","l","n">>), i_status |-> Str(<<"A">>)],
     [key |-> "TEC", m_id |-> Str(<<"k","l","n">>), i_status |-> Str(<<"A">>)],
     [key |-> "TUY", m_id |-> Str(<<"k","l","n">>), i_status |-> Str(<<"A">>)],
     [key |-> "GOM", m_id |-> Str(<<"k","o","k">>), i_status |-> Str(<<"A">>)],
     [key |-> "KNN", m_id |-> Str(<<"k","o","k">>), i_status |-> Str(<<"A">>)],
     [key |-> "KOI", m_id |-> Str(<<"k","o","m">>), i_status |-> Str(<<"A">>)],
     [key |-> "KPV", m_id |-> Str(<<"k","o","m">>), i_status |-> Str(<<"A">>)],
     [key |-> "KNG", m_id |-> Str(<<"k","o","n">>), i_status |-> Str(<<"A">>)],
     [key |-> "KWY", m_id |-> Str(<<"k","o","n">>), i_status |-> Str(<<"A">>)],
     [key |-> "LDI", m_id |-> Str(<<"k","o","n">>), i_status |-> Str(<<"A">>)],
     [key |-> "GKP", m_id |-> Str(<<"k","p","e">>), i_status |-> Str(<<"A">>)],
     [key |-> "XPE", m_id |-> Str(<<"k","p","e">>), i_status |-> Str(<<"A">>)],
     [key |-> "CKB", m_id |-> Str(<<"k","u","r">>), i_status |-> Str(<<"A">>)],
     [key |-> "KMR", m_id |-> Str(<<"k","u","r">>), i_status |-> Str(<<"A">>)],
     [key |-> "SDH", m_id |-> Str(<<"k","u","r">>), i_status |-> Str(<<"A">>)],
     [key |-> "HND", m_id |-> Str(<<"l","a","h">>), i_status |-> Str(<<"A">>)],
     [key |-> "HNO", m_id |-> Str(<<"l","a","h">>), i_status |-> Str(<<"A">>)],
     [key |-> "JAT", m_id |-> Str(<<"l","a","h">>), i_status |-> Str(<<"A">>)],
     [key |-> "PHR", m_id |-> Str(<<"l","a","h">>), i_status |-> Str(<<"A">>)],
     [key |-> "PMU", m_id |-> Str(<<"l","a","h">>), i_status |-> Str(<<"R">>)],
     [key |-> "PNB", m_id |-> Str(<<"l","a","h">>), i_status |-> Str(<<"A">>)],
     [key |-> "SKR", m_id |-> Str(<<"l","a","h">>), i_status |-> Str(<<"A">>)],
     [key |-> "XHE", m_id |-> Str(<<"l","a","h">>), i_status |-> Str(<<"A">>)],
     [key |-> "LTG", m_id |-> Str(<<"l","a","v">>), i_status |-> Str(<<"A">>)],
     [key |-> "LVS", m_id |-> Str(<<"l","a","v">>), i_status |-> Str(<<"A">>)],
     [key |-> "BXK", m_id |-> Str(<<"l","u","y">>), i_status |-> Str(<<"A">>)],
     [key |-> "IDA", m_id |-> Str(<<"l","u","y">>), i_status |-> Str(<<"A">>)],
     [key |-> "LKB", m_id |-> Str(<<"l","u","y">>), i_status |-> Str(<<"A">>)],
     [key |-> "LKO", m_id |-> Str(<<"l","u","y">>), i_status |-> Str(<<"A">>)],
     [key |-> "LKS", m_id |-> Str(<<"l","u","y">>), i_status |-> Str(<<"A">>)],
     [key |-> "LRI", m_id |-> Str(<<"l","u","y">>), i_status |-> Str(<<"A">>)],
     [key |-> "LRM", m_id |-> Str(<<"l","u","y">>), i_status |-> Str(<<"A">>)],
     [key |-> "LSM", m_id |-> Str(<<"l","u","y">>), i_status |-> Str(<<"A">>)],
     [key |-> "LTO", m_id |-> Str(<<"l","u","y">>), i_status |-> Str(<<"A">>)],
     [key |-> "LTS", m_id |-> Str(<<"l","u","y">>), i_status |-> Str(<<"A">>)],
     [key |-> "LWG", m_id |-> Str(<<"l","u","y">>), i_status |-> Str(<<"A">>)],
     [key |-> "NLE", m_id |-> Str(<<"l","u","y">>), i_status |-> Str(<<"A">>)],
     [key |-> "NYD", m_id |-> Str(<<"l","u","y">>), i_status |-> Str(<<"A">>)],
     [key |-> "RAG", m_id |-> Str(<<"l","u","y">>), i_status |-> Str(<<"A">>)],
     [key |-> "EMK", m_id |-> Str(<<"m","a","n">>), i_status |-> Str(<<"A">>)],
     [key |-> "MKU", m_id |-> Str(<<"m","a","n">>), i_status |-> Str(<<"A">>)],
     [key |-> "MLQ", m_id |-> Str(<<"m","a","n">>), i_status |-> Str(<<"A">>)],
     [key |-> "MNK", m_id |-> Str(<<"m","a","n">>), i_status |-> Str(<<"A">>)],
     [key |-> "MSC", m_id |-> Str(<<"m","a","n">>), i_status |-> Str(<<"A">>)],
     [key |-> "MWK", m_id |-> Str(<<"m","a","n">>), i_status |-> Str(<<"A">>)],
     [key |-> "MYQ", m_id |-> Str(<<"m","a","n">>), i_status |-> Str(<<"R">>)],
     [key |-> "BHR", m_id |-> Str(<<"m","l","g">>), i_status |-> Str(<<"A">>)],
     [key |-> "BJQ", m_id |-> Str(<<"m","l","g">>), i_status |-> Str(<<"R">>)],
     [key |-> "BMM", m_id |-> Str(<<"m","l","g">>), i_status |-> Str(<<"A">>)],
     [key |-> "BZC", m_id |-> Str(<<"m","l","g">>), i_status |-> Str(<<"A">>)],
     [key |-> "MSH", m_id |-> Str(<<"m","l","g">>), i_status |-> Str(<<"A">>)],
     [key |-> "PLT", m_id |-> Str(<<"m","l","g">>), i_status |-> Str(<<"A">>)],
     [key |-> "SKG", m_id |-> Str(<<"m","l","g">>), i_status |-> Str(<<"A">>)],
     [key |-> "TDX", m_id |-> Str(<<"m","l","g">>), i_status |-> Str(<<"A">>)],
     [key |-> "TKG", m_id |-> Str(<<"m","l","g">>), i_status |-> Str(<<"A">>)],
     [key |-> "TXY", m_id |-> Str(<<"m","l","g">>), i_status |-> Str(<<"A">>)],
     [key |-> "XMV", m_id |-> Str(<<"m","l","g">>), i_status |-> Str(<<"A">>)],
     [key |-> "XMW", m_id |-> Str(<<"m","l","g">>), i_status |-> Str(<<"A">>)],
     [key |-> "KHK", m_id |-> Str(<<"m","o","n">>), i_status |-> Str(<<"A">>)],
     [key |-> "MVF", m_id |-> Str(<<"m","o","n">>), i_status |-> Str(<<"A">>)],
     [key |-> "BJN", m_id |-> Str(<<"m","s","a">>), i_status |-> Str(<<"A">>)],
     [key |-> "BTJ", m_id |-> Str(<<"m","s","a">>), i_status |-> Str(<<"A">>)],
     [key |-> "BVE", m_id |-> Str(<<"m","s","a">>), i_status |-> Str(<<"A">>)],
     [key |-> "BVU", m_id |-> Str(<<"m","s","a">>), i_status |-> Str(<<"A">>)],
     [key |-> "COA", m_id |-> Str(<<"m","s","a">>), i_status |-> Str(<<"A">>)],
     [key |-> "DUP", m_id |-> Str(<<"m","s","a">>), i_status |-> Str(<<"A">>)],
     [key |-> "HJI", m_id |-> Str(<<"m","s","a">>), i_status |-> Str(<<"A">>)],
     [key |-> "IND", m_id |-> Str(<<"m","s","a">>), i_status |-> Str(<<"A">>)],
     [key |-> "JAK", m_id |-> Str(<<"m","s","a">>), i_status |-> Str(<<"A">>)],
     [key |-> "JAX", m_id |-> Str(<<"m","s","a">>), i_status |-> Str(<<"A">>)],
     [key |-> "KVB", m_id |-> Str(<<"m","s","a">>), i_status |-> Str(<<"A">>)],
     [key |-> "KVR", m_id |-> Str(<<"m","s","a">>), i_status |-> Str(<<"A">>)],
     [key |-> "KXD", m_id |-> Str(<<"m","s","a">>), i_status |-> Str(<<"A">>)],
     [key |-> "LCE", m_id |-> Str(<<"m","s","a">>), i_status |-> Str(<<"A">>)],
     [key |-> "LCF", m_id |-> Str(<<"m","s","a">>), i_status |-> Str(<<"A">>)],
     [key |-> "LIW", m_id |-> Str(<<"m","s","a">>), i_status |-> Str(<<"A">>)],
     [key |-> "MAX", m_id |-> Str(<<"m","s","a">>), i_status |-> Str(<<"A">>)],
     [key |-> "MEO", m_id |-> Str(<<"m","s","a">>), i_status |-> Str(<<"A">>)],
     [key |-> "MFA", m_id |-> Str(<<"m","s","a">>), i_status |-> Str(<<"A">>)],
     [key |-> "MFB", m_id |-> Str(<<"m","s","a">>), i_status |-> Str(<<"A">>)],
     [key |-> "MIN", m_id |-> Str(<<"m","s","a">>), i_status |-> Str(<<"A">>)],
     [key |-> "MLY", m_id |-> Str(<<"m","s","a">>), i_status |-> Str(<<"R">>)],
     [key |-> "MQG", m_id |-> Str(<<"m","s","a">>), i_status |-> Str(<<"A">>)],
     [key |-> "MSI", m_id |-> Str(<<"m","s","a">>), i_status |-> Str(<<"A">>)],
     [key |-> "MUI", m_id |-> Str(<<"m","s","a">>), i_status |-> Str(<<"A">>)],
     [key |-> "ORN", m_id |-> Str(<<"m","s","a">>), i_status |-> Str(<<"A">>)],
     [key |-> "ORS", m_id |-> Str(<<"m","s","a">>), i_status |-> Str(<<"A">>)],
     [key |-> "PEL", m_id |-> Str(<<"m","s","a">>), i_status |-> Str(<<"A">>)],
     [key |-> "PSE", m_id |-> Str(<<"m","s","a">>), i_status |-> Str(<<"A">>)],
     [key |-> "TMW", m_id |-> Str(<<"m","s","a">>), i_status |-> Str(<<"A">>)],
     [key |-> "URK", m_id |-> Str(<<"m","s","a">>), i_status |-> Str(<<"A">>)],
     [key |-> "VKK", m_id |-> Str(<<"m","s","a">>), i_status |-> Str(<<"A">>)],
     [key |-> "VKT", m_id |-> Str(<<"m","s","a">>), i_status |-> Str(<<"A">>)],
     [key |-> "XMM", m_id |-> Str(<<"m","s","a">>), i_status |-> Str(<<"A">>)],
     [key |-> "ZLM", m_id |-> Str(<<"m","s","a">>), i_status |-> Str(<<"A">>)],
     [key |-> "ZMI", m_id |-> Str(<<"m","s","a">>), i_status |-> Str(<<"A">>)],
     [key |-> "ZSM", m_id |-> Str(<<"m","s","a">>), i_status |-> Str(<<"A">>)],
     [key |-> "DHD", m_id |-> Str(<<"m","w","r">>), i_status |-> Str(<<"A">>)],
     [key |-> "MTR", m_id |-> Str(<<"m","w","r">>), i_status |-> Str(<<"A">>)],
     [key |-> "MVE", m_id |-> Str(<<"m","w","r">>), i_status |-> Str(<<"A">>)],
     [key |-> "RWR", m_id |-> Str(<<"m","w","r">>), i_status |-> Str(<<"A">>)],
     [key |-> "SWV", m_id |-> Str(<<"m","w","r">>), i_status |-> Str(<<"A">>)],
     [key |-> "WRY", m_id |-> Str(<<"m","w","r">>), i_status |-> Str(<<"A">>)],
     [key |-> "DTY", m_id |-> Str(<<"n","e","p">>), i_status |-> Str(<<"A">>)],
     [key |-> "NPI", m_id |-> Str(<<"n","e","p">>), i_status |-> Str(<<"A">>)],
     [key |-> "NNO", m_id |-> Str(<<"n","o","r">>), i_status |-> Str(<<"A">>)],
     [key |-> "NOB", m_id |-> Str(<<"n","o","r">>), i_status |-> Str(<<"A">>)],
     [key |-> "CIW", m_id |-> Str(<<"o","j","i">>), i_status |-> Str(<<"A">>)],
     [key |-> "OJB", m_id |-> Str(<<"o","j","i">>), i_status |-> Str(<<"A">>)],
     [key |-> "OJC", m_id |-> Str(<<"o","j","i">>), i_status |-> Str(<<"A">>)],
     [key |-> "OJG", m_id |-> Str(<<"o","j","i">>), i_status |-> Str(<<"A">>)],
     [key |-> "OJS", m_id |-> Str(<<"o","j","i">>), i_status |-> Str(<<"A">>)],
     [key |-> "OJW", m_id |-> Str(<<"o","j","i">>), i_status |-> Str(<<"A">>)],
     [key |-> "OTW", m_id |-> Str(<<"o","j","i">>), i_status |-> Str(<<"A">>)],
     [key |-> "ORY", m_id |-> Str(<<"o","r","i">>), i_status |-> Str(<<"A">>)],
     [key |-> "SPV", m_id |-> Str(<<"o","r","i">>), i_status |-> Str(<<"A">>)],
     [key |-> "GAX", m_id |-> Str(<<"o","r","m">>), i_status |-> Str(<<"A">>)],
     [key |-> "GAZ", m_id |-> Str(<<"o","r","m">>), i_status |-> Str(<<"A">>)],
     [key |-> "HAE", m_id |-> Str(<<"o","r","m">>), i_status |-> Str(<<"A">>)],
     [key |-> "ORC", m_id |-> Str(<<"o","r","m">>), i_status |-> Str(<<"A">>)],
     [key |-> "PBT", m_id |-> Str(<<"p","u","s">>), i_status |-> Str(<<"A">>)],
     [key |-> "PBU", m_id |-> Str(<<"p","u","s">>), i_status |-> Str(<<"A">>)],
     [key |-> "PST", m_id |-> Str(<<"p","u","s">>), i_status |-> Str(<<"A">>)],
     [key |-> "CQU", m_id |-> Str(<<"q","u","e">>), i_status |-> Str(<<"R">>)],
     [key |-> "QUB", m_id |-> Str(<<"q","u","e">>), i_status |-> Str(<<"A">>)],
     [key |-> "QUD", m_id |-> Str(<<"q","u","e">>), i_status |-> Str(<<"A">>)],
     [key |-> "QUF", m_id |-> Str(<<"q","u","e">>), i_status |-> Str(<<"A">>)],
     [key |-> "QUG", m_id |-> Str(<<"q","u","e">>), i_status |-> Str(<<"A">>)],
     [key |-> "QUH", m_id |-> Str(<<"q","u","e">>), i_status |-> Str(<<"A">>)],
     [key |-> "QUK", m_id |-> Str(<<"q","u","e">>), i_status |-> Str(<<"A">>)],
     [key |-> "QUL", m_id |-> Str(<<"q","u","e">>), i_status |-> Str(<<"A">>)],
     [key |-> "QUP", m_id |-> Str(<<"q","u","e">>), i_status |-> Str(<<"A">>)],
     [key |-> "QUR", m_id |-> Str(<<"q","u","e">>), i_status |-> Str(<<"A">>)],
     [key |-> "QUS", m_id |-> Str(<<"q","u","e">>), i_status |-> Str(<<"A">>)],
     [key |-> "QUW", m_id |-> Str(<<"q","u","e">>), i_status |-> Str(<<"A">>)],
     [key |-> "QUX", m_id |-> Str(<<"q","u","e">>), i_status |-> Str(<<"A">>)],
     [key |-> "QUY", m_id |-> Str(<<"q","u","e">>), i_status |-> Str(<<"A">>)],
     [key |-> "QUZ", m_id |-> Str(<<"q","u","e">>), i_status |-> Str(<<"A">>)],
     [key |-> "QVA", m_id |-> Str(<<"q","u","e">>), i_status |-> Str(<<"A">>)],
     [key |-> "QVC", m_id |-> Str(<<"q","u","e">>), i_status |-> Str(<<"A">>)],
     [key |-> "QVE", m_id |-> Str(<<"q","u","e">>), i_status |-> Str(<<"A">>)],
     [key |-> "QVH", m_id |-> Str(<<"q","u","e">>), i_status |-> Str(<<"A">>)],
     [key |-> "QVI", m_id |-> Str(<<"q","u","e">>), i_status |-> Str(<<"A">>)],
     [key |-> "QVJ", m_id |-> Str(<<"q","u","e">>), i_status |-> Str(<<"A">>)],
     [key |-> "QVL", m_id |-> Str(<<"q","u","e">>), i_status |-> Str(<<"A">>)],
     [key |-> "QVM", m_id |-> Str(<<"q","u","e">>), i_status |-> Str(<<"A">>)],
     [key |-> "QVN", m_id |-> Str(<<"q","u","e">>), i_status |-> Str(<<"A">>)],
     [key |-> "QVO", m_id |-> Str(<<"q","u","e">>), i_status |-> Str(<<"A">>)],
     [key |-> "QVP", m_id |-> Str(<<"q","u","e">>), i_status |-> Str(<<"A">>)],
     [key |-> "QVS", m_id |-> Str(<<"q","u","e">>), i_status |-> Str(<<"A">>)],
     [key |-> "QVW", m_id |-> Str(<<"q","u","e">>), i_status |-> Str(<<"A">>)],
     [key |-> "QVZ", m_id |-> Str(<<"q","u","e">>), i_status |-> Str(<<"A">>)],
     [key |-> "QWA", m_id |-> Str(<<"q","u","e">>), i_status |-> Str(<<"A">>)],
     [key |-> "QWC", m_id |-> Str(<<"q","u","e">>), i_status |-> Str(<<"A">>)],
     [key |-> "QWH", m_id |-> Str(<<"q","u","e">>), i_status |-> Str(<<"A">>)],
     [key |-> "QWS", m_id |-> Str(<<"q","u","e">>), i_status |-> Str(<<"A">>)],
     [key |-> "QXA", m_id |-> Str(<<"q","u","e">>), i_status |-> Str(<<"A">>)],
     [key |-> "QXC", m_id |-> Str(<<"q","u","e">>), i_status |-> Str(<<"A">>)],
     [key |-> "QXH", m_id |-> Str(<<"q","u","e">>), i_status |-> Str(<<"A">>)],
     [key |-> "QXL", m_id |-> Str(<<"q","u","e">>), i_status |-> Str(<<"A">>)],
     [key |-> "QXN", m_id |-> Str(<<"q","u","e">>), i_status |-> Str(<<"A">>)],
     [key |-> "QXO", m_id |-> Str(<<"q","u","e">>), i_status |-> Str(<<"A">>)],
     [key |-> "QXP", m_id |-> Str(<<"q","u","e">>), i_status |-> Str(<<"A">>)],
     [key |-> "QXR", m_id |-> Str(<<"q","u","e">>), i_status |-> Str(<<"A">>)],
     [key |-> "QXT", m_id |-> Str(<<"q","u","e">>), i_status |-> Str(<<"A">>)],
     [key |-> "QXU", m_id |-> Str(<<"q","u","e">>), i_status |-> Str(<<"A">>)],
     [key |-> "QXW", m_id |-> Str(<<"q","u","e">>), i_status |-> Str(<<"A">>)],
     [key |-> "BGQ", m_id |-> Str(<<"r","a","j">>), i_status |-> Str(<<"A">>)],
     [key |-> "GDA", m_id |-> Str(<<"r","a","j">>), i_status |-> Str(<<"A">>)],
     [key |-> "GJU", m_id |-> Str(<<"r","a","j">>), i_status |-> Str(<<"A">>)],
     [key |-> "HOJ", m_id |-> Str(<<"r","a","j">>), i_status |-> Str(<<"A">>)],
     [key |-> "MUP", m_id |-> Str(<<"r","a","j">>), i_status |-> Str(<<"A">>)],
     [key |-> "WBR", m_id |-> Str(<<"r","a","j">>), i_status |-> Str(<<"A">>)],
     [key |-> "RMC", m_id |-> Str(<<"r","o","m">>), i_status |-> Str(<<"A">>)],
     [key |-> "RMF", m_id |-> Str(<<"r","o","m">>), i_status |-> Str(<<"A">>)],
     [key |-> "RML", m_id |-> Str(<<"r","o","m">>), i_status |-> Str(<<"A">>)],
     [key |-> "RMN", m_id |-> Str(<<"r","o","m">>), i_status |-> Str(<<"A">>)],
     [key |-> "RMO", m_id |-> Str(<<"r","o","m">>), i_status |-> Str(<<"A">>)],
     [key |-> "RMW", m_id |-> Str(<<"r","o","m">>), i_status |-> Str(<<"A">>)],
     [key |-> "RMY", m_id |-> Str(<<"r","o","m">>), i_status |-> Str(<<"A">>)],
     [key |-> "CLS", m_id |-> Str(<<"s","a","n">>), i_status |-> Str(<<"A">>)],
     [key |-> "VSN", m_id |-> Str(<<"s","a","n">>), i_status |-> Str(<<"A">>)],
     [key |-> "AAE", m_id |-> Str(<<"s","q","i">>), i_status |-> Str(<<"A">>)],
     [key |-> "AAT", m_id |-> Str(<<"s","q","i">>), i_status |-> Str(<<"A">>)],
     [key |-> "ALN", m_id |-> Str(<<"s","q","i">>), i_status |-> Str(<<"A">>)],
     [key |-> "ALS", m_id |-> Str(<<"s","q","i">>), i_status |-> Str(<<"A">>)],
     [key |-> "SDC", m_id |-> Str(<<"s","r","d">>), i_status |-> Str(<<"A">>)],
     [key |-> "SDN", m_id |-> Str(<<"s","r","d">>), i_status |-> Str(<<"A">>)],
     [key |-> "SRC", m_id |-> Str(<<"s","r","d">>), i_status |-> Str(<<"A">>)],
     [key |-> "SRO", m_id |-> Str(<<"s","r","d">>), i_status |-> Str(<<"A">>)],
     [key |-> "SWC", m_id |-> Str(<<"s","w","a">>), i_status |-> Str(<<"A">>)],
     [key |-> "SWH", m_id |-> Str(<<"s","w","a">>), i_status |-> Str(<<"A">>)],
     [key |-> "AII", m_id |-> Str(<<"s","y","r">>), i_status |-> Str(<<"A">>)],
     [key |-> "CLD", m_id |-> Str(<<"s","y","r">>), i_status |-> Str(<<"A">>)],
     [key |-> "TAQ", m_id |-> Str(<<"t","m","h">>), i_status |-> Str(<<"A">>)],
     [key |-> "THV", m_id |-> Str(<<"t","m","h">>), i_status |-> Str(<<"A">>)],
     [key |-> "THZ", m_id |-> Str(<<"t","m","h">>), i_status |-> Str(<<"A">>)],
     [key |-> "TTQ", m_id |-> Str(<<"t","m","h">>), i_status |-> Str(<<"A">>)],
     [key |-> "UZN", m_id |-> Str(<<"u","z","b">>), i_status |-> Str(<<"A">>)],
     [key |-> "UZS", m_id |-> Str(<<"u","z","b">>), i_status |-> Str(<<"A">>)],
     [key |-> "YDD", m_id |-> Str(<<"y","i","d">>), i_status |-> Str(<<"A">>)],
     [key |-> "YIH", m_id |-> Str(<<"y","i","d">>), i_status |-> Str(<<"A">>)],
     [key |-> "ZAA", m_id |-> Str(<<"z","a","p">>), i_status |-> Str(<<"A">>)],
     [key |-> "ZAB", m_id |-> Str(<<"z","a","p">>), i_status |-> Str(<<"A">>)],
     [key |-> "ZAC", m_id |-> Str(<<"z","a","p">>), i_status |-> Str(<<"A">>)],
     [key |-> "ZAD", m_id |-> Str(<<"z","a","p">>), i_status |-> Str(<<"A">>)],
     [key |-> "ZAE", m_id |-> Str(<<"z","a","p">>), i_status |-> Str(<<"A">>)],
     [key |-> "ZAF", m_id |-> Str(<<"z","a","p">>), i_status |-> Str(<<"A">>)],
     [key |-> "ZAI", m_id |-> Str(<<"z","a","p">>), i_status |-> Str(<<"A">>)],
     [key |-> "ZAM", m_id |-> Str(<<"z","a","p">>), i_status |-> Str(<<"A">>)],
     [key |-> "ZAO", m_id |-> Str(<<"z","a","p">>), i_status |-> Str(<<"A">>)],
     [key |-> "ZAQ", m_id |-> Str(<<"z","a","p">>), i_status |-> Str(<<"A">>)],
     [key |-> "ZAR", m_id |-> Str(<<"z","a","p">>), i_status |-> Str(<<"A">>)],
     [key |-> "ZAS", m_id |-> Str(<<"z","a","p">>), i_status |-> Str(<<"A">>)],
     [key |-> "ZAT", m_id |-> Str(<<"z","a","p">>), i_status |-> Str(<<"A">>)],
     [key |-> "ZAV", m_id |-> Str(<<"z","a","p">>), i_status |-> Str(<<"A">>)],
     [key |-> "ZAW", m_id |-> Str(<<"z","a","p">>), i_status |-> Str(<<"A">>)],
     [key |-> "ZAX", m_id |-> Str(<<"z","a","p">>), i_status |-> Str(<<"A">>)],
     [key |-> "ZCA", m_id |-> Str(<<"z","a","p">>), i_status |-> Str(<<"A">>)],
     [key |-> "ZCD", m_id |-> Str(<<"z","a","p">>), i_status |-> Str(<<"A">>)],
     [key |-> "ZOO", m_id |-> Str(<<"z","a","p">>), i_status |-> Str(<<"A">>)],
     [key |-> "ZPA", m_id |-> Str(<<"z","a","p">>), i_status |-> Str(<<"A">>)],
     [key |-> "ZPB", m_id |-> Str(<<"z","a","p">>), i_status |-> Str(<<"A">>)],
     [key |-> "ZPC", m_id |-> Str(<<"z","a","p">>), i_status |-> Str(<<"A">>)],
     [key |-> "ZPD", m_id |-> Str(<<"z","a","p">>), i_status |-> Str(<<"A">>)],
     [key |-> "ZPE", m_id |-> Str(<<"z","a","p">>), i_status |-> Str(<<"A">>)],
     [key |-> "ZPF", m_id |-> Str(<<"z","a","p">>), i_status |-> Str(<<"A">>)],
     [key |-> "ZPG", m_id |-> Str(<<"z","a","p">>), i_status |-> Str(<<"A">>)],
     [key |-> "ZPH", m_id |-> Str(<<"z","a","p">>), i_status |-> Str(<<"A">>)],
     [key |-> "ZPI", m_id |-> Str(<<"z","a","p">>), i_status |-> Str(<<"A">>)],
     [key |-> "ZPJ", m_id |-> Str(<<"z","a","p">>), i_status |-> Str(<<"A">>)],
     [key |-> "ZPK", m_id |-> Str(<<"z","a","p">>), i_status |-> Str(<<"A">>)],
     [key |-> "ZPL", m_id |-> Str(<<"z","a","p">>), i_status |-> Str(<<"A">>)],
     [key |-> "ZPM", m_id |-> Str(<<"z","a","p">>), i_status |-> Str(<<"A">>)],
     [key |-> "ZPN", m_id |-> Str(<<"z","a","p">>), i_status |-> Str(<<"A">>)],
     [key |-> "ZPO", m_id |-> Str(<<"z","a","p">>), i_status |-> Str(<<"A">>)],
     [key |-> "ZPP", m_id |-> Str(<<"z","a","p">>), i_status |-> Str(<<"A">>)],
     [key |-> "ZPQ", m_id |-> Str(<<"z","a","p">>), i_status |-> Str(<<"A">>)],
     [key |-> "ZPR", m_id |-> Str(<<"z","a","p">>), i_status |-> Str(<<"A">>)],
     [key |-> "ZPS", m_id |-> Str(<<"z","a","p">>), i_status |-> Str(<<"A">>)],
     [key |-> "ZPT", m_id |-> Str(<<"z","a","p">>), i_status |-> Str(<<"A">>)],
     [key |-> "ZPU", m_id |-> Str(<<"z","a","p">>), i_status |-> Str(<<"A">>)],
     [key |-> "ZPV", m_id |-> Str(<<"z","a","p">>), i_status |-> Str(<<"A">>)],
     [key |-> "ZPW", m_id |-> Str(<<"z","a","p">>), i_status |-> Str(<<"A">>)],
     [key |-> "ZPX", m_id |-> Str(<<"z","a","p">>), i_status |-> Str(<<"A">>)],
     [key |-> "ZPY", m_id |-> Str(<<"z","a","p">>), i_status |-> Str(<<"A">>)],
     [key |-> "ZPZ", m_id |-> Str(<<"z","a","p">>), i_status |-> Str(<<"A">>)],
     [key |-> "ZSR", m_id |-> Str(<<"z","a","p">>), i_status |-> Str(<<"A">>)],
     [key |-> "ZTC", m_id |-> Str(<<"z","a","p">>), i_status |-> Str(<<"R">>)],
     [key |-> "ZTE", m_id |-> Str(<<"z","a","p">>), i_status |-> Str(<<"A">>)],
     [key |-> "ZTG", m_id |-> Str(<<"z","a","p">>), i_status |-> Str(<<"A">>)],
     [key |-> "ZTL", m_id |-> Str(<<"z","a","p">>), i_status |-> Str(<<"A">>)],
     [key |-> "ZTM", m_id |-> Str(<<"z","a","p">>), i_status |-> Str(<<"A">>)],
     [key |-> "ZTN", m_id |-> Str(<<"z","a","p">>), i_status |-> Str(<<"A">>)],
     [key |-> "ZTP", m_id |-> Str(<<"z","a","p">>), i_status |-> Str(<<"A">>)],
     [key |-> "ZTQ", m_id |-> Str(<<"z","a","p">>), i_status |-> Str(<<"A">>)],
     [key |-> "ZTS", m_id |-> Str(<<"z","a","p">>), i_status |-> Str(<<"A">>)],
     [key |-> "ZTT", m_id |-> Str(<<"z","a","p">>), i_status |-> Str(<<"A">>)],
     [key |-> "ZTU", m_id |-> Str(<<"z","a","p">>), i_status |-> Str(<<"A">>)],
     [key |-> "ZTX", m_id |-> Str(<<"z","a","p">>), i_status |-> Str(<<"A">>)],
     [key |-> "ZTY", m_id |-> Str(<<"z","a","p">>), i_status |-> Str(<<"A">>)],
     [key |-> "CCX", m_id |-> Str(<<"z","h","a">>), i_status |-> Str(<<"R">>)],
     [key |-> "CCY", m_id |-> Str(<<"z","h","a">>), i_status |-> Str(<<"R">>)],
     [key |-> "ZCH", m_id |-> Str(<<"z","h","a">>), i_status |-> Str(<<"A">>)],
     [key |-> "ZEH", m_id |-> Str(<<"z","h","a">>), i_status |-> Str(<<"A">>)],
     [key |-> "ZGB", m_id |-> Str(<<"z","h","a">>), i_status |-> Str(<<"A">>)],
     [key |-> "ZGM", m_id |-> Str(<<"z","h","a">>), i_status |-> Str(<<"A">>)],
     [key |-> "ZGN", m_id |-> Str(<<"z","h","a">>), i_status |-> Str(<<"A">>)],
     [key |-> "ZHD", m_id |-> Str(<<"z","h","a">>), i_status |-> Str(<<"A">>)],
     [key |-> "ZHN", m_id |-> Str(<<"z","h","a">>), i_status |-> Str(<<"A">>)],
     [key |-> "ZLJ", m_id |-> Str(<<"z","h","a">>), i_status |-> Str(<<"A">>)],
     [key |-> "ZLN", m_id |-> Str(<<"z","h","a">>), i_status |-> Str(<<"A">>)],
     [key |-> "ZLQ", m_id |-> Str(<<"z","h","a">>), i_status |-> Str(<<"A">>)],
     [key |-> "ZQE", m_id |-> Str(<<"z","h","a">>), i_status |-> Str(<<"A">>)],
     [key |-> "ZYB", m_id |-> Str(<<"z","h","a">>), i_status |-> Str(<<"A">>)],
     [key |-> "ZYG", m_id |-> Str(<<"z","h","a">>), i_status |-> Str(<<"A">>)],
     [key |-> "ZYJ", m_id |-> Str(<<"z","h","a">>), i_status |-> Str(<<"A">>)],
     [key |-> "ZYN", m_id |-> Str(<<"z","h","a">>), i_status |-> Str(<<"A">>)],
     [key |-> "ZZJ", m_id |-> Str(<<"z","h","a">>), i_status |-> Str(<<"A">>)],
     [key |-> "CDO", m_id |-> Str(<<"z","h","o">>), i_status |-> Str(<<"A">>)],
     [key |-> "CJY", m_id |-> Str(<<"z","h","o">>), i_status |-> Str(<<"A">>)],
     [key |-> "CMN", m_id |-> Str(<<"z","h","o">>), i_status |-> Str(<<"A">>)],
     [key |-> "CNP", m_id |-> Str(<<"z","h","o">>), i_status |-> Str(<<"A">>)],
     [key |-> "CPX", m_id |-> Str(<<"z","h","o">>), i_status |-> Str(<<"A">>)],
     [key |-> "CSP", m_id |-> Str(<<"z","h","o">>), i_status |-> Str(<<"A">>)],
     [key |-> "CZH", m_id |-> Str(<<"z","h","o">>), i_status |-> Str(<<"A">>)],
     [key |-> "CZO", m_id |-> Str(<<"z","h","o">>), i_status |-> Str(<<"A">>)],
     [key |-> "GAN", m_id |-> Str(<<"z","h","o">>), i_status |-> Str(<<"A">>)],
     [key |-> "HAK", m_id |-> Str(<<"z","h","o">>), i_status |-> Str(<<"A">>)],
     [key |-> "HSN", m_id |-> Str(<<"z","h","o">>), i_status |-> Str(<<"A">>)],
     [key |-> "LZH", m_id |-> Str(<<"z","h","o">>), i_status |-> Str(<<"A">>)],
     [key |-> "MNP", m_id |-> Str(<<"z","h","o">>), i_status |-> Str(<<"A">>)],
     [key |-> "NAN", m_id |-> Str(<<"z","h","o">>), i_status |-> Str(<<"A">>)],
     [key |-> "WUU", m_id |-> Str(<<"z","h","o">>), i_status |-> Str(<<"A">>)],
     [key |-> "YUE", m_id |-> Str(<<"z","h","o">>), i_status |-> Str(<<"A">>)],
     [key |-> "DIQ", m_id |-> Str(<<"z","z","a">>), i_status |-> Str(<<"A">>)],
     [key |-> "KIU", m_id |-> Str(<<"z","z","a">>), i_status |-> Str(<<"A">>)] >>

PhoneDecls ==
  << [key |-> "BD", country |-> "BD", calling_code |-> 880, prefixes |-> <<>>],
     [key |-> "BE", country |-> "BE", calling_code |-> 32, prefixes |-> <<>>],
     [key |-> "BF", country |-> "BF", calling_code |-> 226, prefixes |-> <<>>],
     [key |-> "BG", country |-> "BG", calling_code |-> 359, prefixes |-> <<>>],
     [key |-> "BA", country |-> "BA", calling_code |-> 387, prefixes |-> <<>>],
     [key |-> "BB", country |-> "BB", calling_code |-> 1, prefixes |-> <<246>>],
     [key |-> "WF", country |-> "WF", calling_code |-> 681, prefixes |-> <<>>],
     [key |-> "BL", country |-> "BL", calling_code |-> 590, prefixes |-> <<>>],
     [key |-> "BM", country |-> "BM", calling_code |-> 1, prefixes |-> <<441>>],
     [key |-> "BN", country |-> "BN", calling_code |-> 673, prefixes |-> <<>>],
     [key |-> "BO", country |-> "BO", calling_code |-> 591, prefixes |-> <<>>],
     [key |-> "BH", country |-> "BH", calling_code |-> 973, prefixes |-> <<>>],
     [key |-> "BI", country |-> "BI", calling_code |-> 257, prefixes |-> <<>>],
     [key |-> "BJ", country |-> "BJ", calling_code |-> 229, prefixes |-> <<>>],
     [key |-> "BT", country |-> "BT", calling_code |-> 975, prefixes |-> <<>>],
     [key |-> "JM", country |-> "JM", calling_code |-> 1, prefixes |-> <<876>>],
     [key |-> "BW", country |-> "BW", calling_code |-> 267, prefixes |-> <<>>],
     [key |-> "WS", country |-> "WS", calling_code |-> 685, prefixes |-> <<>>],
     [key |-> "BQ", country |-> "BQ", calling_code |-> 599, prefixes |-> <<>>],
     [key |-> "BR", country |-> "BR", calling_code |-> 55, prefixes |-> <<>>],
     [key |-> "BS", country |-> "BS", calling_code |-> 1, prefixes |-> <<242>>],
     [key |-> "JE", country |-> "JE", calling_code |-> 44, prefixes |-> <<1534>>],
     [key |-> "BY", country |-> "BY", calling_code |-> 375, prefixes |-> <<>>],
     [key |-> "BZ", country |-> "BZ", calling_code |-> 501, prefixes |-> <<>>],
     [key |-> "RU", country |-> "RU", calling_code |-> 7, prefixes |-> <<>>],
     [key |-> "RW", country |-> "RW", calling_code |-> 250, prefixes |-> <<>>],
     [key |-> "RS", country |-> "RS", calling_code |-> 381, prefixes |-> <<>>],
     [key |-> "TL", country |-> "TL", calling_code |-> 670, prefixes |-> <<>>],
     [key |-> "RE", country |-> "RE", calling_code |-> 262, prefixes |-> <<>>],
     [key |-> "TM", country |-> "TM", calling_code |-> 993, prefixes |-> <<>>],
     [key |-> "TJ", country |-> "TJ", calling_code |-> 992, prefixes |-> <<>>],
     [key |-> "RO", country |-> "RO", calling_code |-> 40, prefixes |-> <<>>],
     [key |-> "TK", country |-> "TK", calling_code |-> 690, prefixes |-> <<>>],
     [key |-> "GW", country |-> "GW", calling_code |-> 245, prefixes |-> <<>>],
     [key |-> "GU", country |-> "GU", calling_code |-> 1, prefixes |-> <<671>>],
     [key |-> "GT", country |-> "GT", calling_code |-> 502, prefixes |-> <<>>],
     [key |-> "GR", country |-> "GR", calling_code |-> 30, prefixes |-> <<>>],
     [key |-> "GQ", country |-> "GQ", calling_code |-> 240, prefixes |-> <<>>],
     [key |-> "GP", country |-> "GP", calling_code |-> 590, prefixes |-> <<>>],
     [key |-> "JP", country |-> "JP", calling_code |-> 81, prefixes |-> <<>>],
     [key |-> "GY", country |-> "GY", calling_code |-> 592, prefixes |-> <<>>],
     [key |-> "GG", country |-> "GG", calling_code |-> 44, prefixes |-> <<1481>>],
     [key |-> "GF", country |-> "GF", calling_code |-> 594, prefixes |-> <<>>],
     [key |-> "GE", country |-> "GE", calling_code |-> 995, prefixes |-> <<>>],
     [key |-> "GD", country |-> "GD", calling_code |-> 1, prefixes |-> <<473>>],
     [key |-> "GB", country |-> "GB", calling_code |-> 44, prefixes |-> <<1224,1235,1339,1252,1507,1259,1420,1269,1264,1461,1241,1294,1301,1276,1335,1364,1233,1297,1296,1292,1295,1330,1261,1248,1341,1226,1271,1229,1446,1246,1225,1506,1234,1434,1289,1299,1237,121,1388,1279,1254,1253,1250,1258,1208,1204,1423,1205,1202,1451,1344,1274,1376,1356,1277,1278,1262,1308,1273,117,1275,1471,1508,1280,1288,1395,1425,1282,1543,1283,1284,1298,1286,1223,1227,29,1239,1228,1267,1556,1300,1460,1245,1242,1244,1246,1243,1249,1285,1255,1200,1437,1530,1236,1206,1492,1260,1477,1207,1257,1490,24,1340,1363,1270,1263,1290,1325,1332,1362,1380,1349,1379,1485,1354,1302,1305,1304,1366,1377,1398,1389,1387,1368,1382,1383,1350,1369,1361,191,1453,1347,1342,1355,1357,1323,1470,131,1343,1358,1353,1372,1392,1328,1324,1326,1329,1489,1367,1348,1303,1561,1307,1309,1320,1397,1381,1346,1373,1427,1445,1465,141,1458,1456,1457,1452,1408,1405,1476,1479,1474,1371,1488,1493,1475,1472,1483,1287,1422,1501,1429,1428,1424,1433,1440,1450,1497,1444,1435,1436,1431,1439,1432,1494,1455,1462,1406,1409,1407,1400,1404,1403,1484,1482,1480,1466,1464,1499,1463,1467,1473,1505,1535,1542,1573,1539,1536,1538,1360,1567,1469,1563,1553,1548,1544,1540,1577,1557,1575,1438,1547,1565,1337,1528,1549,1570,1555,1524,1564,1578,1566,113,116,1525,1568,1522,151,1545,1558,1550,1559,1554,1520,1546,1571,1576,20,1503,1509,1502,161,1430,1442,1526,1352,1560,1491,1293,1306,28,115,1572,1359,1333,1334,1495,1443,1496,1478,23,1454,118,1527,1209,114,1291,1394,1529,1268,1375,1569,1384,1386,1562,1449,1322,1487,1327>>],
     [key |-> "GA", country |-> "GA", calling_code |-> 241, prefixes |-> <<>>],
     [key |-> "SV", country |-> "SV", calling_code |-> 503, prefixes |-> <<>>],
     [key |-> "GN", country |-> "GN", calling_code |-> 224, prefixes |-> <<>>],
     [key |-> "GM", country |-> "GM", calling_code |-> 220, prefixes |-> <<>>],
     [key |-> "GL", country |-> "GL", calling_code |-> 299, prefixes |-> <<>>],
     [key |-> "GI", country |-> "GI", calling_code |-> 350, prefixes |-> <<>>],
     [key |-> "GH", country |-> "GH", calling_code |-> 233, prefixes |-> <<>>],
     [key |-> "OM", country |-> "OM", calling_code |-> 968, prefixes |-> <<>>],
     [key |-> "TN", country |-> "TN", calling_code |-> 216, prefixes |-> <<>>],
     [key |-> "JO", country |-> "JO", calling_code |-> 962, prefixes |-> <<>>],
     [key |-> "HR", country |-> "HR", calling_code |-> 385, prefixes |-> <<>>],
     [key |-> "HT", country |-> "HT", calling_code |-> 509, prefixes |-> <<>>],
     [key |-> "HU", country |-> "HU", calling_code |-> 36, prefixes |-> <<>>],
     [key |-> "HK", country |-> "HK", calling_code |-> 852, prefixes |-> <<>>],
     [key |-> "HN", country |-> "HN", calling_code |-> 504, prefixes |-> <<>>],
     [key |-> "VE", country |-> "VE", calling_code |-> 58, prefixes |-> <<>>],
     [key |-> "PR", country |-> "PR", calling_code |-> 1, prefixes |-> <<787,939>>],
     [key |-> "PS", country |-> "PS", calling_code |-> 970, prefixes |-> <<>>],
     [key |-> "PW", country |-> "PW", calling_code |-> 680, prefixes |-> <<>>],
     [key |-> "PT", country |-> "PT", calling_code |-> 351, prefixes |-> <<>>],
     [key |-> "SJ", country |-> "SJ", calling_code |-> 47, prefixes |-> <<>>],
     [key |-> "PY", country |-> "PY", calling_code |-> 595, prefixes |-> <<>>],
     [key |-> "IQ", country |-> "IQ", calling_code |-> 964, prefixes |-> <<>>],
     [key |-> "PA", country |-> "PA", calling_code |-> 507, prefixes |-> <<>>],
     [key |-> "PF", country |-> "PF", calling_code |-> 689, prefixes |-> <<>>],
     [key |-> "PG", country |-> "PG", calling_code |-> 675, prefixes |-> <<>>],
     [key |-> "PE", country |-> "PE", calling_code |-> 51, prefixes |-> <<>>],
     [key |-> "PK", country |-> "PK", calling_code |-> 92, prefixes |-> <<>>],
     [key |-> "PH", country |-> "PH", calling_code |-> 63, prefixes |-> <<>>],
     [key |-> "PN", country |-> "PN", calling_code |-> 870, prefixes |-> <<>>],
     [key |-> "PL", country |-> "PL", calling_code |-> 48, prefixes |-> <<>>],
     [key |-> "PM", country |-> "PM", calling_code |-> 508, prefixes |-> <<>>],
     [key |-> "ZM", country |-> "ZM", calling_code |-> 260, prefixes |-> <<>>],
     [key |-> "EH", country |-> "EH", calling_code |-> 212, prefixes |-> <<>>],
     [key |-> "EE", country |-> "EE", calling_code |-> 372, prefixes |-> <<>>],
     [key |-> "EG", country |-> "EG", calling_code |-> 20, prefixes |-> <<>>],
     [key |-> "ZA", country |-> "ZA", calling_code |-> 27, prefixes |-> <<>>],
     [key |-> "EC", country |-> "EC", calling_code |-> 593, prefixes |-> <<>>],
     [key |-> "IT", country |-> "IT", calling_code |-> 39, prefixes |-> <<>>],
     [key |-> "VN", country |-> "VN", calling_code |-> 84, prefixes |-> <<>>],
     [key |-> "SB", country |-> "SB", calling_code |-> 677, prefixes |-> <<>>],
     [key |-> "ET", country |-> "ET", calling_code |-> 251, prefixes |-> <<>>],
     [key |-> "SO", country |-> "SO", calling_code |-> 252, prefixes |-> <<>>],
     [key |-> "ZW", country |-> "ZW", calling_code |-> 263, prefixes |-> <<>>],
     [key |-> "SA", country |-> "SA", calling_code |-> 966, prefixes |-> <<>>],
     [key |-> "ES", country |-> "ES", calling_code |-> 34, prefixes |-> <<>>],
     [key |-> "ER", country |-> "ER", calling_code |-> 291, prefixes |-> <<>>],
     [key |-> "ME", country |-> "ME", calling_code |-> 382, prefixes |-> <<>>],
     [key |-> "MD", country |-> "MD", calling_code |-> 373, prefixes |-> <<>>],
     [key |-> "MG", country |-> "MG", calling_code |-> 261, prefixes |-> <<>>],
     [key |-> "MF", country |-> "MF", calling_code |-> 590, prefixes |-> <<>>],
     [key |-> "MA", country |-> "MA", calling_code |-> 212, prefixes |-> <<>>],
     [key |-> "MC", country |-> "MC", calling_code |-> 377, prefixes |-> <<>>],
     [key |-> "UZ", country |-> "UZ", calling_code |-> 998, prefixes |-> <<>>],
     [key |-> "MM", country |-> "MM", calling_code |-> 95, prefixes |-> <<>>],
     [key |-> "ML", country |-> "ML", calling_code |-> 223, prefixes |-> <<>>],
     [key |-> "MO", country |-> "MO", calling_code |-> 853, prefixes |-> <<>>],
     [key |-> "MN", country |-> "MN", calling_code |-> 976, prefixes |-> <<>>],
     [key |-> "MH", country |-> "MH", calling_code |-> 692, prefixes |-> <<>>],
     [key |-> "MK", country |-> "MK", calling_code |-> 389, prefixes |-> <<>>],
     [key |-> "MU", country |-> "MU", calling_code |-> 230, prefixes |-> <<>>],
     [key |-> "MT", country |-> "MT", calling_code |-> 356, prefixes |-> <<>>],
     [key |-> "MW", country |-> "MW", calling_code |-> 265, prefixes |-> <<>>],
     [key |-> "MV", country |-> "MV", calling_code |-> 960, prefixes |-> <<>>],
     [key |-> "MQ", country |-> "MQ", calling_code |-> 596, prefixes |-> <<>>],
     [key |-> "MP", country |-> "MP", calling_code |-> 1, prefixes |-> <<670>>],
     [key |-> "MS", country |-> "MS", calling_code |-> 1, prefixes |-> <<664>>],
     [key |-> "MR", country |-> "MR", calling_code |-> 222, prefixes |-> <<>>],
     [key |-> "IM", country |-> "IM", calling_code |-> 44, prefixes |-> <<1624>>],
     [key |-> "UG", country |-> "UG", calling_code |-> 256, prefixes |-> <<>>],
     [key |-> "TZ", country |-> "TZ", calling_code |-> 255, prefixes |-> <<>>],
     [key |-> "MY", country |-> "MY", calling_code |-> 60, prefixes |-> <<>>],
     [key |-> "MX", country |-> "MX", calling_code |-> 52, prefixes |-> <<>>],
     [key |-> "IL", country |-> "IL", calling_code |-> 972, prefixes |-> <<>>],
     [key |-> "FR", country |-> "FR", calling_code |-> 33, prefixes |-> <<>>],
     [key |-> "IO", country |-> "IO", calling_code |-> 246, prefixes |-> <<>>],
     [key |-> "SH", country |-> "SH", calling_code |-> 290, prefixes |-> <<>>],
     [key |-> "FI", country |-> "FI", calling_code |-> 358, prefixes |-> <<>>],
     [key |-> "FJ", country |-> "FJ", calling_code |-> 679, prefixes |-> <<>>],
     [key |-> "FK", country |-> "FK", calling_code |-> 500, prefixes |-> <<>>],
     [key |-> "FM", country |-> "FM", calling_code |-> 691, prefixes |-> <<>>],
     [key |-> "FO", country |-> "FO", calling_code |-> 298, prefixes |-> <<>>],
     [key |-> "NI", country |-> "NI", calling_code |-> 505, prefixes |-> <<>>],
     [key |-> "NL", country |-> "NL", calling_code |-> 31, prefixes |-> <<>>],
     [key |-> "NO", country |-> "NO", calling_code |-> 47, prefixes |-> <<>>],
     [key |-> "NA", country |-> "NA", calling_code |-> 264, prefixes |-> <<>>],
     [key |-> "VU", country |-> "VU", calling_code |-> 678, prefixes |-> <<>>],
     [key |-> "NC", country |-> "NC", calling_code |-> 687, prefixes |-> <<>>],
     [key |-> "NE", country |-> "NE", calling_code |-> 227, prefixes |-> <<>>],
     [key |-> "NF", country |-> "NF", calling_code |-> 672, prefixes |-> <<>>],
     [key |-> "NG", country |-> "NG", calling_code |-> 234, prefixes |-> <<>>],
     [key |-> "NZ", country |-> "NZ", calling_code |-> 64, prefixes |-> <<>>],
     [key |-> "NP", country |-> "NP", calling_code |-> 977, prefixes |-> <<>>],
     [key |-> "NR", country |-> "NR", calling_code |-> 674, prefixes |-> <<>>],
     [key |-> "NU", country |-> "NU", calling_code |-> 683, prefixes |-> <<>>],
     [key |-> "CK", country |-> "CK", calling_code |-> 682, prefixes |-> <<>>],
     [key |-> "CI", country |-> "CI", calling_code |-> 225, prefixes |-> <<>>],
     [key |-> "CH", country |-> "CH", calling_code |-> 41, prefixes |-> <<>>],
     [key |-> "CO", country |-> "CO", calling_code |-> 57, prefixes |-> <<>>],
     [key |-> "CN", country |-> "CN", calling_code |-> 86, prefixes |-> <<>>],
     [key |-> "CM", country |-> "CM", calling_code |-> 237, prefixes |-> <<>>],
     [key |-> "CL", country |-> "CL", calling_code |-> 56, prefixes |-> <<>>],
     [key |-> "CC", country |-> "CC", calling_code |-> 61, prefixes |-> <<>>],
     [key |-> "CA", country |-> "CA", calling_code |-> 1, prefixes |-> <<587,403,780,819,902,226,519,289,905,438,514,343,613,418,581,306,705,249,600,506,709,450,579,807,647,416,236,778,604,250,204,867>>],
     [key |-> "CG", country |-> "CG", calling_code |-> 242, prefixes |-> <<>>],
     [key |-> "CF", country |-> "CF", calling_code |-> 236, prefixes |-> <<>>],
     [key |-> "CD", country |-> "CD", calling_code |-> 243, prefixes |-> <<>>],
     [key |-> "CZ", country |-> "CZ", calling_code |-> 420, prefixes |-> <<>>],
     [key |-> "CY", country |-> "CY", calling_code |-> 357, prefixes |-> <<>>],
     [key |-> "CX", country |-> "CX", calling_code |-> 61, prefixes |-> <<>>],
     [key |-> "CR", country |-> "CR", calling_code |-> 506, prefixes |-> <<>>],
     [key |-> "CW", country |-> "CW", calling_code |-> 599, prefixes |-> <<>>],
     [key |-> "CV", country |-> "CV", calling_code |-> 238, prefixes |-> <<>>],
     [key |-> "CU", country |-> "CU", calling_code |-> 53, prefixes |-> <<>>],
     [key |-> "SZ", country |-> "SZ", calling_code |-> 268, prefixes |-> <<>>],
     [key |-> "SY", country |-> "SY", calling_code |-> 963, prefixes |-> <<>>],
     [key |-> "SX", country |-> "SX", calling_code |-> 599, prefixes |-> <<>>],
     [key |-> "KG", country |-> "KG", calling_code |-> 996, prefixes |-> <<>>],
     [key |-> "KE", country |-> "KE", calling_code |-> 254, prefixes |-> <<>>],
     [key |-> "SS", country |-> "SS", calling_code |-> 211, prefixes |-> <<>>],
     [key |-> "SR", country |-> "SR", calling_code |-> 597, prefixes |-> <<>>],
     [key |-> "KI", country |-> "KI", calling_code |-> 686, prefixes |-> <<>>],
     [key |-> "KH", country |-> "KH", calling_code |-> 855, prefixes |-> <<>>],
     [key |-> "KN", country |-> "KN", calling_code |-> 1, prefixes |-> <<869>>],
     [key |-> "KM", country |-> "KM", calling_code |-> 269, prefixes |-> <<>>],
     [key |-> "ST", country |-> "ST", calling_code |-> 239, prefixes |-> <<>>],
     [key |-> "SK", country |-> "SK", calling_code |-> 421, prefixes |-> <<>>],
     [key |-> "KR", country |-> "KR", calling_code |-> 82, prefixes |-> <<>>],
     [key |-> "SI", country |-> "SI", calling_code |-> 386, prefixes |-> <<>>],
     [key |-> "KP", country |-> "KP", calling_code |-> 850, prefixes |-> <<>>],
     [key |-> "KW", country |-> "KW", calling_code |-> 965, prefixes |-> <<>>],
     [key |-> "SN", country |-> "SN", calling_code |-> 221, prefixes |-> <<>>],
     [key |-> "SM", country |-> "SM", calling_code |-> 378, prefixes |-> <<>>],
     [key |-> "SL", country |-> "SL", calling_code |-> 232, prefixes |-> <<>>],
     [key |-> "SC", country |-> "SC", calling_code |-> 248, prefixes |-> <<>>],
     [key |-> "KZ", country |-> "KZ", calling_code |-> 7, prefixes |-> <<317,329,313,327,330,717,312,321,314,324,336,318,315,322,325,328,311,323,326,310>>],
     [key |-> "KY", country |-> "KY", calling_code |-> 1, prefixes |-> <<345>>],
     [key |-> "SG", country |-> "SG", calling_code |-> 65, prefixes |-> <<>>],
     [key |-> "SE", country |-> "SE", calling_code |-> 46, prefixes |-> <<>>],
     [key |-> "SD", country |-> "SD", calling_code |-> 249, prefixes |-> <<>>],
     [key |-> "DO", country |-> "DO", calling_code |-> 1, prefixes |-> <<809,829>>],
     [key |-> "DM", country |-> "DM", calling_code |-> 1, prefixes |-> <<767>>],
     [key |-> "DJ", country |-> "DJ", calling_code |-> 253, prefixes |-> <<>>],
     [key |-> "DK", country |-> "DK", calling_code |-> 45, prefixes |-> <<>>],
     [key |-> "VG", country |-> "VG", calling_code |-> 1, prefixes |-> <<284>>],
     [key |-> "DE", country |-> "DE", calling_code |-> 49, prefixes |-> <<>>],
     [key |-> "YE", country |-> "YE", calling_code |-> 967, prefixes |-> <<>>],
     [key |-> "DZ", country |-> "DZ", calling_code |-> 213, prefixes |-> <<>>],
     [key |-> "US", country |-> "US", calling_code |-> 1, prefixes |-> <<325,330,234,518,229,957,505,320,730,618,657,909,752,714,907,734,278,703,571,828,606,404,770,678,470,609,762,706,331,737,512,667,443,410,225,425,360,240,610,484,835,406,228,659,205,952,208,857,617,802,631,203,475,718,347,979,818,747,856,239,319,447,217,843,681,304,980,704,423,872,773,312,413,708,464,283,513,931,440,216,573,803,614,380,925,361,214,972,469,764,650,276,563,937,386,940,720,303,313,679,620,218,715,534,848,732,915,908,607,814,760,442,541,458,812,701,910,810,954,754,479,260,682,817,559,352,409,219,970,616,231,920,274,336,864,254,985,959,860,516,808,832,713,281,938,256,936,317,515,949,769,601,731,904,551,201,870,913,975,816,308,262,845,865,337,765,863,717,740,517,307,956,575,702,580,859,501,562,323,310,213,502,978,351,806,434,339,781,478,608,603,507,660,641,830,901,786,305,414,612,251,334,630,615,724,504,917,646,212,973,862,716,510,341,432,405,531,402,927,689,407,321,269,364,270,445,267,215,623,602,480,878,412,763,626,248,772,971,503,207,401,719,919,984,530,775,804,951,540,585,309,815,779,252,916,989,831,801,385,210,935,858,619,628,415,408,669,805,661,424,627,369,707,941,906,912,570,206,564,318,301,227,712,605,574,509,417,636,435,314,557,651,727,662,209,209,315,253,850,813,419,567,785,947,520,918,430,903,757,586,202,847,224,561,316,302,774,508,914,928>>],
     [key |-> "UY", country |-> "UY", calling_code |-> 598, prefixes |-> <<>>],
     [key |-> "YT", country |-> "YT", calling_code |-> 262, prefixes |-> <<>>],
     [key |-> "UM", country |-> "UM", calling_code |-> 1, prefixes |-> <<>>],
     [key |-> "LB", country |-> "LB", calling_code |-> 961, prefixes |-> <<>>],
     [key |-> "LC", country |-> "LC", calling_code |-> 1, prefixes |-> <<758>>],
     [key |-> "LA", country |-> "LA", calling_code |-> 856, prefixes |-> <<>>],
     [key |-> "TV", country |-> "TV", calling_code |-> 688, prefixes |-> <<>>],
     [key |-> "TW", country |-> "TW", calling_code |-> 886, prefixes |-> <<>>],
     [key |-> "TT", country |-> "TT", calling_code |-> 1, prefixes |-> <<868>>],
     [key |-> "TR", country |-> "TR", calling_code |-> 90, prefixes |-> <<>>],
     [key |-> "LK", country |-> "LK", calling_code |-> 94, prefixes |-> <<>>],
     [key |-> "LI", country |-> "LI", calling_code |-> 423, prefixes |-> <<>>],
     [key |-> "LV", country |-> "LV", calling_code |-> 371, prefixes |-> <<>>],
     [key |-> "TO", country |-> "TO", calling_code |-> 676, prefixes |-> <<>>],
     [key |-> "LT", country |-> "LT", calling_code |-> 370, prefixes |-> <<>>],
     [key |-> "LU", country |-> "LU", calling_code |-> 352, prefixes |-> <<>>],
     [key |-> "LR", country |-> "LR", calling_code |-> 231, prefixes |-> <<>>],
     [key |-> "LS", country |-> "LS", calling_code |-> 266, prefixes |-> <<>>],
     [key |-> "TH", country |-> "TH", calling_code |-> 66, prefixes |-> <<>>],
     [key |-> "TG", country |-> "TG", calling_code |-> 228, prefixes |-> <<>>],
     [key |-> "TD", country |-> "TD", calling_code |-> 235, prefixes |-> <<>>],
     [key |-> "TC", country |-> "TC", calling_code |-> 1, prefixes |-> <<649>>],
     [key |-> "LY", country |-> "LY", calling_code |-> 218, prefixes |-> <<>>],
     [key |-> "VA", country |-> "VA", calling_code |-> 379, prefixes |-> <<>>],
     [key |-> "VC", country |-> "VC", calling_code |-> 1, prefixes |-> <<784>>],
     [key |-> "AE", country |-> "AE", calling_code |-> 971, prefixes |-> <<>>],
     [key |-> "AD", country |-> "AD", calling_code |-> 376, prefixes |-> <<>>],
     [key |-> "AG", country |-> "AG", calling_code |-> 1, prefixes |-> <<268>>],
     [key |-> "AF", country |-> "AF", calling_code |-> 93, prefixes |-> <<>>],
     [key |-> "AI", country |-> "AI", calling_code |-> 1, prefixes |-> <<264>>],
     [key |-> "VI", country |-> "VI", calling_code |-> 1, prefixes |-> <<340>>],
     [key |-> "IS", country |-> "IS", calling_code |-> 354, prefixes |-> <<>>],
     [key |-> "IR", country |-> "IR", calling_code |-> 98, prefixes |-> <<>>],
     [key |-> "AM", country |-> "AM", calling_code |-> 374, prefixes |-> <<>>],
     [key |-> "AL", country |-> "AL", calling_code |-> 355, prefixes |-> <<>>],
     [key |-> "AO", country |-> "AO", calling_code |-> 244, prefixes |-> <<>>],
     [key |-> "AS", country |-> "AS", calling_code |-> 1, prefixes |-> <<684>>],
     [key |-> "AR", country |-> "AR", calling_code |-> 54, prefixes |-> <<>>],
     [key |-> "AU", country |-> "AU", calling_code |-> 61, prefixes |-> <<>>],
     [key |-> "AT", country |-> "AT", calling_code |-> 43, prefixes |-> <<>>],
     [key |-> "AW", country |-> "AW", calling_code |-> 297, prefixes |-> <<>>],
     [key |-> "IN", country |-> "IN", calling_code |-> 91, prefixes |-> <<>>],
     [key |-> "AX", country |-> "AX", calling_code |-> 358, prefixes |-> <<18>>],
     [key |-> "AZ", country |-> "AZ", calling_code |-> 994, prefixes |-> <<>>],
     [key |-> "IE", country |-> "IE", calling_code |-> 353, prefixes |-> <<>>],
     [key |-> "ID", country |-> "ID", calling_code |-> 62, prefixes |-> <<>>],
     [key |-> "UA", country |-> "UA", calling_code |-> 380, prefixes |-> <<>>],
     [key |-> "QA", country |-> "QA", calling_code |-> 974, prefixes |-> <<>>],
     [key |-> "MZ", country |-> "MZ", calling_code |-> 258, prefixes |-> <<>>] >>
---------------------------------------------------------------------------
(* Enum construction *)

\* The unit (pydantic model) a declaration assigns: its fields without the
\* member name.  Two units are equal when all their fields are.
UnitOf(d) == [f \in (DOMAIN d) \ {"key"} |-> d[f]]

\* Enum.__members__.values(): one entry per declared name, in declaration
\* order.  A declaration whose unit equals the unit of an earlier member is
\* an alias: its entry is that earlier member itself.
EnumMembers(decls) ==
  [i \in 1..Len(decls) |->
     decls[Min({j \in 1..i : UnitOf(decls[j]) = UnitOf(decls[i])})]]

\* The members of each collection as its class body builds them at import.
ImportedMembers ==
  [Country |-> EnumMembers(CountryDecls),
   Currency |-> EnumMembers(CurrencyDecls),
   Language |-> EnumMembers(LanguageDecls),
   MacroLanguage |-> EnumMembers(MacroLanguageDecls),
   Phone |-> EnumMembers(PhoneDecls)]

\* member.field as it reads now: the value last assigned to it, and the
\* imported one when nothing was assigned.
FieldNow(collection, member, field) ==
  LET hits == {k \in 1..Len(writes) : /\ writes[k].collection = collection
                                      /\ writes[k].key = member.key
                                      /\ writes[k].field = field}
  IN IF hits = {} THEN member[field]
     ELSE writes[CHOOSE k \in hits : \A j \in hits : j <= k].value

\* The members with every field read as it is now.
MembersWritten(collection, imported) ==
  [i \in DOMAIN imported |->
     [f \in DOMAIN imported[i] |-> FieldNow(collection, imported[i], f)]]

\* cls.__members__.values() as it reads now.
MembersNow(collection) ==
  IF writes = <<>> THEN ImportedMembers[collection]
  ELSE MembersWritten(collection, ImportedMembers[collection])

CountryMembers == MembersNow("Country")

CurrencyMembers == MembersNow("Currency")

LanguageMembers == MembersNow("Language")

MacroLanguageMembers == MembersNow("MacroLanguage")

PhoneMembers == MembersNow("Phone")

\* The scan keeping the last member that passes the test.
LastMatch(members, hits, qualname) ==
  IF hits = {} THEN Raise("ValueError", <<"is not a valid", qualname>>)
  ELSE Return(members[CHOOSE i \in hits : \A j \in hits : j <= i])

\* for member in members: if <test>: return member
\* followed by the raise that ends every single-record __call__.  hits are
\* the positions of the members that pass the test.
FirstMatch(members, hits, qualname) ==
  IF hits = {} THEN Raise("ValueError", <<"is not a valid", qualname>>)
  ELSE Return(members[Min(hits)])

---------------------------------------------------------------------------
(* Country *)

\* A variant without the integer form of the numeric code.
CountryCompareList_strings_only(country) ==
  <<country.alpha_2, country.alpha_3, country.numeric>>

\* The list  value  is looked up in.
CountryCompareList(country) ==
  <<country.alpha_2, country.alpha_3, country.numeric,
    IntV(PyInt(country.numeric.v).val)>>

\* __call__ that compares str values with the blanks around them removed and
\* letter case ignored.
CountryEnumType_call_any_case(value) ==
  FirstMatch(CountryMembers,
             {i \in 1..Len(CountryMembers) :
                \/ PyIn(value, CountryCompareList(CountryMembers[i]))
                \/ /\ value.t = "str"
                   /\ \E k \in {"alpha_2", "alpha_3", "numeric"} :
                        lower(StripRight(StripLeft(value.v)))
                          = lower(CountryMembers[i][k].v)},
             "Country")

CountryEnumType_call(value) ==
  FirstMatch(CountryMembers,
             {i \in 1..Len(CountryMembers) :
                PyIn(value, CountryCompareList(CountryMembers[i]))},
             "Country")

---------------------------------------------------------------------------
(* Currency *)

\* The list  value  is looked up in.
CurrencyCompareList(unit) == <<unit.alpha_3, unit.numeric>>

CurrencyEnumType_call(value) ==
  FirstMatch(CurrencyMembers,
             {i \in 1..Len(CurrencyMembers) :
                PyIn(value, CurrencyCompareList(CurrencyMembers[i]))},
             "Currency")

\* The loop of _get_currencies_by_digits with >= in place of ==.
currencies_by_digits_at_least(digits) ==
  LET Test(unit) == unit.digits >= digits
  IN SelectSeq(CurrencyMembers, Test)

\* The body of _get_currencies_by_digits: the members with the given digits,
\* in the order of __members__.
currencies_by_digits(digits) ==
  LET Test(unit) == unit.digits = digits
  IN SelectSeq(CurrencyMembers, Test)

\* @cache: the memo after a call with the given argument; the body runs only
\* when the argument is not in the memo yet.
cache_after(memo, digits) ==
  IF digits \in DOMAIN memo THEN memo
  ELSE [d \in DOMAIN memo \cup {digits} |->
          IF d = digits THEN currencies_by_digits(digits) ELSE memo[d]]

\* list.remove(x): the list without the first element equal to x.
list_remove(list, x) ==
  LET at == Min({i \in 1..Len(list) : list[i] = x})
  IN [i \in 1..(Len(list) - 1) |-> IF i < at THEN list[i] ELSE list[i + 1]]

---------------------------------------------------------------------------
(* Language *)

\* _get_compare_list without the alpha_2 code.
get_compare_list_alpha_3_only(language) ==
  <<language.alpha_3>>

get_compare_list(language) ==
  IF language.alpha_2 # None
    THEN <<language.alpha_3, language.alpha_2>>
    ELSE <<language.alpha_3>>

LanguageEnumType_call(value) ==
  FirstMatch(LanguageMembers,
             {i \in 1..Len(LanguageMembers) :
                PyIn(value, get_compare_list(LanguageMembers[i]))},
             "Language")

---------------------------------------------------------------------------
(* MacroLanguage *)

allowed_i_statuses == <<Str(<<"A">>), Str(<<"R">>)>>

\* TRUE when _validate_i_status raises.
validate_i_status_raises(i_status) ==
  i_status # None /\ ~PyIn(i_status, allowed_i_statuses)

\* _is_macro_language_valid without the comparison of the status.
is_macro_language_valid_any_status(val, language, i_status) ==
  PyEq(language.m_id, val)

is_macro_language_valid(val, language, i_status) ==
  IF ~PyEq(language.m_id, val) THEN FALSE
  ELSE IF i_status = None \/ PyEq(language.i_status, i_status) THEN TRUE
  ELSE FALSE

\* __call__ returning the list it built whether or not it is empty.
MacroLanguageUnitEnumType_call_any_list(value, i_status) ==
  IF validate_i_status_raises(i_status)
    THEN Raise("ValueError", <<"is not a valid i_status for", "MacroLanguage">>)
  ELSE IF value.t # "str"
    THEN Raise("AttributeError", <<"object has no attribute", "lower">>)
  ELSE LET val == Str(lower(value.v))
           Test(language) == is_macro_language_valid(val, language, i_status)
       IN Return(SelectSeq(MacroLanguageMembers, Test))

\* __call__ with the status checked after the value has been lowered.
MacroLanguageUnitEnumType_call_status_late(value, i_status) ==
  IF value.t # "str"
    THEN Raise("AttributeError", <<"object has no attribute", "lower">>)
  ELSE IF validate_i_status_raises(i_status)
    THEN Raise("ValueError", <<"is not a valid i_status for", "MacroLanguage">>)
  ELSE LET val == Str(lower(value.v))
           Test(language) == is_macro_language_valid(val, language, i_status)
           languages == SelectSeq(MacroLanguageMembers, Test)
       IN IF languages # <<>> THEN Return(languages)
          ELSE Raise("ValueError", <<"is not a valid", "MacroLanguage">>)

MacroLanguageUnitEnumType_call(value, i_status) ==
  IF validate_i_status_raises(i_status)
    THEN Raise("ValueError", <<"is not a valid i_status for", "MacroLanguage">>)
  ELSE IF value.t # "str"
    THEN Raise("AttributeError", <<"object has no attribute", "lower">>)
  ELSE LET val == Str(lower(value.v))
           Test(language) == is_macro_language_valid(val, language, i_status)
           \* the loop appends every entry of __members__.values() that
           \* passes, in order
           languages == SelectSeq(MacroLanguageMembers, Test)
       IN IF languages # <<>> THEN Return(languages)
          ELSE Raise("ValueError", <<"is not a valid", "MacroLanguage">>)

---------------------------------------------------------------------------
(* Phone *)

\* is_prefix_supported that looks a missing prefix up in the list.
is_prefix_supported_none_looked_up(unit, prefix) ==
  IF unit.prefixes = <<>> THEN TRUE
  ELSE prefix # None
         /\ \E i \in 1..Len(unit.prefixes) : PyEq(prefix, IntV(unit.prefixes[i]))

\* PhoneUnitBase.is_prefix_supported
is_prefix_supported(unit, prefix) ==
  IF unit.prefixes = <<>> \/ prefix = None THEN TRUE
  ELSE \E i \in 1..Len(unit.prefixes) : PyEq(prefix, IntV(unit.prefixes[i]))

\* Phone.is_prefix_supported
Phone_is_prefix_supported(phone, prefix) ==
  IF prefix = None THEN TRUE ELSE is_prefix_supported(phone, prefix)

\* value.split("+")[1] for a value that starts with "+": the text between
\* the first "+" and the next one (or the end).
RECURSIVE UpToPlus(_)
UpToPlus(s) ==
  IF s = <<>> \/ Head(s) = "+" THEN <<>> ELSE <<Head(s)>> \o UpToPlus(Tail(s))

\* _normalize_value with a str taken only when it is made of digits.
normalize_value_digits_only(value) ==
  IF value.t = "str"
    THEN IF value.v # <<>> /\ \A i \in 1..Len(value.v) : IsDigit(value.v[i])
           THEN Return(IntV(DigitsValue(value.v, 0)))
           ELSE Raise("ValueError", <<"has unsupported type", "Phone">>)
  ELSE IF value.t = "int" THEN Return(value)
  ELSE Raise("ValueError", <<"has wrong type", "Phone">>)

normalize_value(value) ==
  IF value.t = "str"
    THEN LET s == IF value.v # <<>> /\ Head(value.v) = "+"
                    THEN UpToPlus(Tail(value.v))
                    ELSE value.v
         IN IF PyInt(s).kind = "return" THEN Return(IntV(PyInt(s).val))
            ELSE Raise("ValueError", <<"has unsupported type", "Phone">>)
  ELSE IF value.t = "int" THEN Return(value)
  ELSE Raise("ValueError", <<"has wrong type", "Phone">>)

\* get_phone as a scan that returns the first member of the calling code
\* unless a prefix is given and the member's list lacks it.
get_phone_first_declared(value, members, prefix) ==
  LET matches == {i \in 1..Len(members) : PyEq(value, IntV(members[i].calling_code))}
      fits == {i \in matches : is_prefix_supported(members[i], prefix)}
  IN IF fits # {} THEN Return(members[Min(fits)])
     ELSE Raise("_PhoneUnitNotFoundError", <<>>)

\* get_phone with the candidates looked at only when no prefix is given.
get_phone_candidates_without_prefix(value, members, prefix) ==
  LET matches == {i \in 1..Len(members) : PyEq(value, IntV(members[i].calling_code))}
      winners == {i \in matches : members[i].prefixes # <<>>
                                  /\ Phone_is_prefix_supported(members[i], prefix)}
      candidates == {i \in matches : members[i].prefixes = <<>>}
  IN IF winners # {} THEN Return(members[Min(winners)])
     ELSE IF candidates # {} /\ prefix = None THEN Return(members[Min(candidates)])
     ELSE Raise("_PhoneUnitNotFoundError", <<>>)

\* get_phone with every member of the calling code taken as a candidate.
get_phone_any_candidate(value, members, prefix) ==
  LET matches == {i \in 1..Len(members) : PyEq(value, IntV(members[i].calling_code))}
      winners == {i \in matches : members[i].prefixes # <<>>
                                  /\ Phone_is_prefix_supported(members[i], prefix)}
  IN IF winners # {} THEN Return(members[Min(winners)])
     ELSE IF matches # {} THEN Return(members[Min(matches)])
     ELSE Raise("_PhoneUnitNotFoundError", <<>>)

\* The loop returns the first member of the calling code that has prefixes
\* and supports the given one; candidates, the members of the calling code
\* without prefixes, are looked at only after the loop has ended.
get_phone(value, members, prefix) ==
  LET matches == {i \in 1..Len(members) : PyEq(value, IntV(members[i].calling_code))}
      winners == {i \in matches : members[i].prefixes # <<>>
                                  /\ Phone_is_prefix_supported(members[i], prefix)}
      candidates == {i \in matches : members[i].prefixes = <<>>}
  IN IF winners # {} THEN Return(members[Min(winners)])
     ELSE IF candidates # {} THEN Return(members[Min(candidates)])
     ELSE Raise("_PhoneUnitNotFoundError", <<>>)

PhoneEnumType_call(value, prefix) ==
  LET normalized_value == normalize_value(value)
  IN IF normalized_value.kind = "raise" THEN normalized_value
     ELSE LET got == get_phone(normalized_value.val, PhoneMembers, prefix)
          IN IF got.kind = "raise"
               THEN Raise("ValueError", <<"is not a valid", "Phone">>)
               ELSE got

---------------------------------------------------------------------------
(* Collection[name] *)

\* A member name as a dict key: a str kept whole, since names are only
\* compared for equality.
NameStr(k) == [t |-> "str", v |-> k]

\* Enum's cls._member_map_[name]: the name of every declaration, aliases
\* included, is bound to its member; a missing name is a KeyError.
member_map_getitem(decls, name) ==
  LET hits == {i \in 1..Len(decls) : NameStr(decls[i].key) = name}
  IN IF hits = {} THEN Raise("KeyError", <<name>>)
     ELSE Return(EnumMembers(decls)[Min(hits)])

\* __getitem__ that lets the KeyError through.
EnumTypeBase_getitem_key_error(decls, name, qualname) ==
  member_map_getitem(decls, name)

\* EnumTypeBase.__getitem__, the one of Country, Language, MacroLanguage
\* and Phone.
EnumTypeBase_getitem(decls, name, qualname) ==
  LET got == member_map_getitem(decls, name)
  IN IF got.kind = "raise" /\ got.exc = "KeyError"
       THEN Raise("ValueError", <<"is not a valid", qualname>>)
       ELSE got

\* _CurrencyEnumType.__getitem__
CurrencyEnumType_getitem(name) ==
  LET got == member_map_getitem(CurrencyDecls, name)
  IN IF got.kind = "raise" /\ got.exc = "KeyError"
       THEN Raise("ValueError", <<"is not a valid", "Currency">>)
       ELSE got
---------------------------------------------------------------------------
(* Currency.clean_amount.  currencies.py as given declares neither the     *)
(* method nor its error classes, which __init__.py imports and            *)
(* tests/test_currencies.py calls: the definitions below follow the        *)
(* documented contract, the checks taken in the order it lists them.       *)

\* decimal.Decimal: sign (0 or 1), coefficient and exponent as in
\* Decimal.as_tuple(); special is "finite", "Infinity" or "NaN".
Decimal(sign, coef, exp) ==
  [t |-> "Decimal", v |-> [special |-> "finite", sign |-> sign, coef |-> coef, exp |-> exp]]

DecimalSpecial(sign, special) ==
  [t |-> "Decimal", v |-> [special |-> special, sign |-> sign, coef |-> 0, exp |-> 0]]

Float(n) == [t |-> "float", v |-> n]

is_decimal(amount) == amount.t = "Decimal"

\* A variant that looks for infinity only.
is_finite_unless_infinity(amount) == amount.v.special # "Infinity"

is_finite(amount) == amount.v.special = "finite"

is_zero(amount) == is_finite(amount) /\ amount.v.coef = 0

\* amount < 0: minus zero and NaN are not negative, minus infinity is.
is_negative(amount) ==
  amount.v.sign = 1 /\ (amount.v.special = "Infinity" \/ (is_finite(amount) /\ amount.v.coef > 0))

\* A variant that forgets allow_zero.
zero_never_allowed(amount, allow_zero) == is_zero(amount)

zero_not_allowed(amount, allow_zero) == is_zero(amount) /\ ~allow_zero

\* The length of the fractional part: the digits right of the decimal point.
fractional_digits(amount) == IF amount.v.exp < 0 THEN 0 - amount.v.exp ELSE 0

has_too_many_digits(currency, amount) == fractional_digits(amount) > currency.digits

\* A variant that returns the amount as it came.
pad_digits_not_at_all(amount, digits) == amount

\* A variant that appends `digits` zeros whatever the amount has already.
pad_digits_appends(amount, digits) ==
  Decimal(amount.v.sign, amount.v.coef * 10 ^ digits,
          (IF amount.v.exp < 0 THEN amount.v.exp ELSE 0) - digits)

\* The amount rewritten with exactly `digits` fractional digits, for an
\* amount that has no more than that: zeros are appended to the coefficient.
pad_digits(amount, digits) ==
  Decimal(amount.v.sign, amount.v.coef * 10 ^ (amount.v.exp + digits), 0 - digits)

\* The checks that follow the type check, in the order the contract lists
\* them; the first that fails decides the error.
clean_decimal(currency, amount, allow_zero) ==
  IF ~is_finite(amount) THEN Raise("AmountSpecialValuesNotAllowedError", <<>>)
  ELSE IF is_negative(amount) THEN Raise("NegativeAmountNotAllowedError", <<>>)
  ELSE IF zero_not_allowed(amount, allow_zero)
    THEN Raise("ZeroAmountNotAllowedError", <<>>)
  ELSE IF has_too_many_digits(currency, amount)
    THEN Raise("WrongAmountDigitsNumberError", <<>>)
  ELSE Return(pad_digits(amount, currency.digits))

\* A variant that takes an int as the Decimal of the same value.
clean_amount_accepts_int(currency, amount, allow_zero) ==
  IF amount.t = "int"
    THEN clean_decimal(currency,
                       Decimal(IF amount.v < 0 THEN 1 ELSE 0,
                               IF amount.v < 0 THEN 0 - amount.v ELSE amount.v, 0),
                       allow_zero)
  ELSE IF ~is_decimal(amount) THEN Raise("WrongAmountTypeError", <<>>)
  ELSE clean_decimal(currency, amount, allow_zero)

\* A variant that drops the digits in excess instead of rejecting them.
clean_amount_truncates(currency, amount, allow_zero) ==
  IF ~is_decimal(amount) THEN Raise("WrongAmountTypeError", <<>>)
  ELSE IF is_finite(amount) /\ has_too_many_digits(currency, amount)
    THEN clean_decimal(currency,
                       Decimal(amount.v.sign,
                               amount.v.coef \div
                                 (10 ^ (fractional_digits(amount) - currency.digits)),
                               0 - currency.digits),
                       allow_zero)
  ELSE clean_decimal(currency, amount, allow_zero)

\* A variant that counts the digits before it looks at the sign.
clean_amount_digits_first(currency, amount, allow_zero) ==
  IF ~is_decimal(amount) THEN Raise("WrongAmountTypeError", <<>>)
  ELSE IF is_finite(amount) /\ has_too_many_digits(currency, amount)
    THEN Raise("WrongAmountDigitsNumberError", <<>>)
  ELSE clean_decimal(currency, amount, allow_zero)

clean_amount(currency, amount, allow_zero) ==
  IF ~is_decimal(amount) THEN Raise("WrongAmountTypeError", <<>>)
  ELSE clean_decimal(currency, amount, allow_zero)

---------------------------------------------------------------------------
(* Arguments the callers pass *)

MaxInt == 999

MaxCoef == 12

MaxFrac == 4

MaxExp == 1

MaxEdits == 1

SeqRange(s) == {s[i] : i \in 1..Len(s)}

\* Every str found in the given fields of a collection's members.
KeyStrings(members, fields) ==
  {m[f] : m \in SeqRange(members), f \in fields} \ {None}

\* The same strings in another letter case, or with a blank before them.
Variants(keys) ==
  {Str(lower(k.v)) : k \in keys} \cup {Str(upper(k.v)) : k \in keys}
    \cup {Str(<<" ">> \o k.v) : k \in keys}

IntValues == {IntV(n) : n \in 0..MaxInt}

OtherValues ==
  {None, Str(<<>>), Str(<<"n","o","n","_","e","x","i","s","t","e","n","t">>),
   Str(<<"0","8","4","0">>), Str(<<"4">>), IntV(0 - 1)}

CountryValues ==
  LET keys == KeyStrings(CountryMembers, {"alpha_2", "alpha_3", "numeric"})
  IN keys \cup Variants(keys) \cup IntValues \cup OtherValues

CurrencyValues ==
  LET keys == KeyStrings(CurrencyMembers, {"alpha_3", "numeric"})
  IN keys \cup Variants(keys) \cup IntValues \cup OtherValues

LanguageValues ==
  LET keys == KeyStrings(LanguageMembers,
                         {"alpha_2", "alpha_3", "bibliographic", "terminology"})
  IN keys \cup Variants(keys) \cup OtherValues \cup {IntV(1)}

MacroLanguageValues ==
  LET keys == KeyStrings(MacroLanguageMembers, {"m_id"})
      names == {Str(<<"F","A","T">>), Str(<<"T","W","I">>), Str(<<"A","r","A">>)}
  IN keys \cup Variants(keys) \cup names \cup OtherValues \cup {IntV(1)}

StatusValues == {None, Str(<<"A">>), Str(<<"R">>), Str(<<"a">>), Str(<<"X">>), IntV(1)}

\* The decimal digits of a natural number, as str(n) writes them.
RECURSIVE NatStr(_)
NatStr(n) ==
  IF n < 10 THEN <<DigitChars[n + 1]>>
  ELSE NatStr(n \div 10) \o <<DigitChars[(n % 10) + 1]>>

PhoneValues ==
  IntValues
    \cup {Str(NatStr(n)) : n \in 0..MaxInt}
    \cup {Str(<<"+">> \o NatStr(n)) : n \in 0..MaxInt}
    \cup OtherValues
    \cup {Str(<<"+">>), Str(<<"+","+","1">>), Str(<<"+","1","+","2">>),
          Str(<<"+","a","b","c">>), Str(<<" ","4","4">>), Str(<<"-","1">>),
          Str(<<"1","_","0">>), Str(<<"+","0","0","7">>), Str(<<"4","4","+">>)}

\* The prefixes worth passing with a value: none, those declared by the
\* records of the calling code the value names, and some declared by no
\* such record.
PhonePrefixes(value) ==
  LET n == normalize_value(value)
      mine == IF n.kind = "raise" THEN {}
              ELSE {p \in SeqRange(PhoneMembers) : PyEq(n.val, IntV(p.calling_code))}
      own == UNION {{IntV(p.prefixes[i]) : i \in 1..Len(p.prefixes)} : p \in mine}
  IN {None, IntV(0), IntV(317), IntV(787), IntV(1624)} \cup own

\* The collections by their class names, and their declarations.
Collections == {"Country", "Currency", "Language", "MacroLanguage", "Phone"}

DeclsOf(collection) ==
  CASE collection = "Country" -> CountryDecls
    [] collection = "Currency" -> CurrencyDecls
    [] collection = "Language" -> LanguageDecls
    [] collection = "MacroLanguage" -> MacroLanguageDecls
    [] collection = "Phone" -> PhoneDecls

\* The names worth passing in Collection[name]: every declared one, and
\* some that no collection declares.
GetItemNames(collection) ==
  {NameStr(DeclsOf(collection)[i].key) : i \in 1..Len(DeclsOf(collection))}
    \cup {NameStr("non_existent"), NameStr(""), NameStr("us"), NameStr("alpha_2"),
          NameStr("840"), IntV(1), None}

\* The prefixes worth asking a record about: none, its own, and some it may
\* not list.
PrefixesFor(phone) ==
  {None, IntV(0), IntV(317), IntV(787), IntV(1624)}
    \cup {IntV(phone.prefixes[i]) : i \in 1..Len(phone.prefixes)}

\* The amounts of tests/test_currencies.py that the ranges above leave out:
\* Decimal("-20"), Decimal("1.234"), Decimal("20.2").
TestAmounts == {Decimal(1, 20, 0), Decimal(0, 1234, 0 - 3), Decimal(0, 202, 0 - 1)}

Amounts ==
  {Decimal(sign, coef, exp) :
     sign \in {0, 1}, coef \in 0..MaxCoef, exp \in (0 - MaxFrac)..MaxExp}
    \cup {DecimalSpecial(sign, special) :
            sign \in {0, 1}, special \in {"Infinity", "NaN"}}
    \cup TestAmounts
    \cup {IntV(0), IntV(1), IntV(0 - 20), Float(1), Float(0), None,
          Str(<<"2","0",".","2">>)}

---------------------------------------------------------------------------
(* The state machine: a caller invokes one operation and gets its outcome, *)
(* and takes it before the next call.                                      *)

Idle == [op |-> "idle"]

Init ==
  /\ call = Idle
  /\ result = Return(None)
  /\ cached = <<>>
  /\ writes = <<>>

CallCountry ==
  /\ call = Idle
  /\ UNCHANGED <<cached, writes>>
  /\ \E value \in CountryValues :
       /\ call' = [op |-> "Country", value |-> value]
       /\ result' = CountryEnumType_call(value)

CallCurrency ==
  /\ call = Idle
  /\ UNCHANGED <<cached, writes>>
  /\ \E value \in CurrencyValues :
       /\ call' = [op |-> "Currency", value |-> value]
       /\ result' = CurrencyEnumType_call(value)

CallLanguage ==
  /\ call = Idle
  /\ UNCHANGED <<cached, writes>>
  /\ \E value \in LanguageValues :
       /\ call' = [op |-> "Language", value |-> value]
       /\ result' = LanguageEnumType_call(value)

CallMacroLanguage ==
  /\ call = Idle
  /\ UNCHANGED <<cached, writes>>
  /\ \E value \in MacroLanguageValues, i_status \in StatusValues :
       /\ call' = [op |-> "MacroLanguage", value |-> value, i_status |-> i_status]
       /\ result' = MacroLanguageUnitEnumType_call(value, i_status)

\* Phone(value, prefix) that adds a prefix it was given to the list of the
\* record it returns.
CallPhone_learning_prefix ==
  /\ call = Idle
  /\ UNCHANGED cached
  /\ \E value \in PhoneValues :
       \E prefix \in PhonePrefixes(value) :
         /\ call' = [op |-> "Phone", value |-> value, prefix |-> prefix]
         /\ result' = PhoneEnumType_call(value, prefix)
         /\ writes' = IF result'.kind = "return" /\ prefix # None
                        THEN Append(writes,
                                    [collection |-> "Phone",
                                     key |-> result'.val.key,
                                     field |-> "prefixes",
                                     value |-> Append(result'.val.prefixes, prefix.v)])
                        ELSE writes

CallPhone ==
  /\ call = Idle
  /\ UNCHANGED <<cached, writes>>
  /\ \E value \in PhoneValues :
       \E prefix \in PhonePrefixes(value) :
         /\ call' = [op |-> "Phone", value |-> value, prefix |-> prefix]
         /\ result' = PhoneEnumType_call(value, prefix)

\* Collection[name]
CallGetItem ==
  /\ call = Idle
  /\ UNCHANGED <<cached, writes>>
  /\ \E collection \in Collections :
       \E name \in GetItemNames(collection) :
         /\ call' = [op |-> "getitem", collection |-> collection, name |-> name]
         /\ result' = IF collection = "Currency"
                        THEN CurrencyEnumType_getitem(name)
                        ELSE EnumTypeBase_getitem(DeclsOf(collection), name, collection)

\* phone.is_prefix_supported(prefix) on a Phone member, or
\* phone.unit.is_prefix_supported(prefix) on its unit.
CallIsPrefixSupported ==
  /\ call = Idle
  /\ UNCHANGED <<cached, writes>>
  /\ \E phone \in SeqRange(PhoneMembers), on \in {"Phone", "PhoneUnit"} :
       \E prefix \in PrefixesFor(phone) :
         /\ call' = [op |-> "is_prefix_supported", on |-> on, phone |-> phone,
                     prefix |-> prefix]
         /\ result' = Return(BoolV(IF on = "Phone"
                                     THEN Phone_is_prefix_supported(phone, prefix)
                                     ELSE is_prefix_supported(phone, prefix)))

\* currency.clean_amount(amount, allow_zero=allow_zero) on a fresh amount.
CallCleanAmount ==
  /\ call = Idle
  /\ UNCHANGED <<cached, writes>>
  /\ \E currency \in SeqRange(CurrencyMembers), amount \in Amounts,
        allow_zero \in BOOLEAN :
       /\ call' = [op |-> "clean_amount", currency |-> currency, amount |-> amount,
                   allow_zero |-> allow_zero, again |-> FALSE, given |-> amount]
       /\ result' = clean_amount(currency, amount, allow_zero)

\* The caller passes the amount it got back to clean_amount once more;
\* given stays the amount it started from.
CleanAgain ==
  /\ call.op = "clean_amount"
  /\ ~call.again
  /\ result.kind = "return"
  /\ call' = [call EXCEPT !.amount = result.val, !.again = TRUE]
  /\ result' = clean_amount(call.currency, result.val, call.allow_zero)
  /\ UNCHANGED <<cached, writes>>

\* The argument each accessor of Currency passes to the memoised helper.
AccessorDigits == [zero_digits |-> 0, two_digits |-> 2, three_digits |-> 3]

\* A read of Currency.zero_digits, two_digits or three_digits: the list
\* comes from the memoised helper, and the list returned is the one the
\* memo holds.
ReadAccessor ==
  /\ call = Idle
  /\ UNCHANGED writes
  /\ \E accessor \in DOMAIN AccessorDigits :
       LET digits == AccessorDigits[accessor]
       IN /\ cached' = cache_after(cached, digits)
          /\ call' = [op |-> "digits", accessor |-> accessor, digits |-> digits,
                      edits |-> 0]
          /\ result' = Return(cached'[digits])

\* The caller takes an element of the list it holds, as in
\* Currency.two_digits[0] (positions are counted from 1 here).
IndexList ==
  /\ call.op = "digits"
  /\ \E i \in 1..Len(result.val) :
       /\ call' = [op |-> "element", accessor |-> call.accessor,
                   digits |-> call.digits, index |-> i]
       /\ result' = Return(result.val[i])
  /\ UNCHANGED <<cached, writes>>

\* The lists a caller can turn the list it holds into with one of
\* append(x), remove(x) and clear().
Edits(list) ==
  {Append(list, CurrencyMembers[1]), <<>>}
    \cup (IF list = <<>> THEN {} ELSE {list_remove(list, list[1])})

\* The caller modifies the list an accessor returned; that list is the
\* object the memo holds.  A caller starts on a list nobody has modified
\* and modifies it at most MaxEdits times.
CallerModifies ==
  /\ call.op = "digits"
  /\ call.edits < MaxEdits
  /\ call.edits = 0 => cached[call.digits] = currencies_by_digits(call.digits)
  /\ \E list \in Edits(cached[call.digits]) :
       /\ cached' = [cached EXCEPT ![call.digits] = list]
       /\ result' = Return(list)
  /\ call' = [call EXCEPT !.edits = @ + 1]
  /\ UNCHANGED writes

\* The caller takes the outcome.
TakeResult ==
  /\ call # Idle
  /\ call' = Idle
  /\ result' = Return(None)
  /\ UNCHANGED <<cached, writes>>

Next ==
  \/ CallCountry
  \/ CallCurrency
  \/ CallLanguage
  \/ CallMacroLanguage
  \/ CallPhone
  \/ CallGetItem
  \/ CallIsPrefixSupported
  \/ CallCleanAmount
  \/ CleanAgain
  \/ ReadAccessor
  \/ IndexList
  \/ CallerModifies
  \/ TakeResult

Spec == Init /\ [][Next]_vars

\* The lookups alone.
LookupNext ==
  \/ CallCountry
  \/ CallCurrency
  \/ CallLanguage
  \/ CallMacroLanguage
  \/ CallPhone
  \/ CallGetItem
  \/ CallIsPrefixSupported
  \/ TakeResult

LookupSpec == Init /\ [][LookupNext]_vars

\* clean_amount alone.
AmountNext ==
  \/ CallCleanAmount
  \/ CleanAgain
  \/ TakeResult

AmountSpec == Init /\ [][AmountNext]_vars

\* The accessors alone, read by callers that leave the lists as they are.
DigitsNext ==
  \/ ReadAccessor
  \/ IndexList
  \/ TakeResult

DigitsSpec == Init /\ [][DigitsNext]_vars

\* The accessors read by callers that modify the lists they get.
SharedListNext ==
  \/ ReadAccessor
  \/ CallerModifies
  \/ TakeResult

SharedListSpec == Init /\ [][SharedListNext]_vars

---------------------------------------------------------------------------
(* Properties *)

Raised(e) == result.kind = "raise" /\ result.exc = e

\* The member that the i-th declaration of a collection names: the member
\* of the first declaration with an equal value (Enum makes a declaration
\* whose value equals an earlier one's another name of that member).
MemberDeclared(decls, i) ==
  decls[Min({j \in 1..i : UnitOf(decls[j]) = UnitOf(decls[i])})]

\* A three-digit numeric code as the digits of n, leading zeros kept.
ZeroPad3(n) ==
  <<DigitChars[(n \div 100) + 1], DigitChars[((n \div 10) % 10) + 1],
    DigitChars[(n % 10) + 1]>>

\* The integer value is the integer form of the numeric code.
IsIntegerForm(value, numeric) ==
  value.t = "int" /\ value.v \in 0..999 /\ ZeroPad3(value.v) = numeric.v

\* C1: for every Country record r, Country(r.alpha_2), Country(r.alpha_3),
\* Country(r.numeric) and Country(int(r.numeric)) all return r itself.
C1_CountryRoundTrip ==
  call.op = "Country" =>
    \A r \in SeqRange(CountryMembers) :
      (\/ call.value \in {r.alpha_2, r.alpha_3, r.numeric}
       \/ IsIntegerForm(call.value, r.numeric))
        => result = Return(r)

\* Country(4), the integer form of "004", has returned the Afghanistan record.
C1_Witness ==
  /\ call.op = "Country"
  /\ call.value = IntV(4)
  /\ result.kind = "return"
  /\ result.val.key = "AF"
  /\ result.val.numeric = Str(<<"0", "0", "4">>)

\* C2: for every Currency record r, Currency(r.alpha_3), Currency(r.numeric)
\* and Currency(int(r.numeric)) all return r itself.
C2_CurrencyRoundTrip ==
  call.op = "Currency" =>
    \A r \in SeqRange(CurrencyMembers) :
      (\/ call.value \in {r.alpha_3, r.numeric}
       \/ IsIntegerForm(call.value, r.numeric))
        => result = Return(r)

\* The value of a lookup equals a key field of some record of the
\* collection: a code of a Country, Currency or Language record, the
\* macrolanguage id whatever the letter case, the calling code a Phone value
\* denotes.
EqualsSomeKey ==
  CASE call.op = "Country" ->
         \E r \in SeqRange(CountryMembers) :
           \/ call.value \in {r.alpha_2, r.alpha_3, r.numeric}
           \/ IsIntegerForm(call.value, r.numeric)
    [] call.op = "Currency" ->
         \E r \in SeqRange(CurrencyMembers) :
           \/ call.value \in {r.alpha_3, r.numeric}
           \/ IsIntegerForm(call.value, r.numeric)
    [] call.op = "Language" ->
         \E r \in SeqRange(LanguageMembers) :
           call.value \in {r.alpha_3, r.alpha_2, r.bibliographic, r.terminology} \ {None}
    [] call.op = "MacroLanguage" ->
         /\ call.value.t = "str"
         /\ \E r \in SeqRange(MacroLanguageMembers) : r.m_id.v = lower(call.value.v)
    [] call.op = "Phone" ->
         /\ normalize_value(call.value).kind = "return"
         /\ \E r \in SeqRange(PhoneMembers) :
              normalize_value(call.value).val = IntV(r.calling_code)
    [] OTHER -> TRUE

IsLookup == call.op \in {"Country", "Currency", "Language", "MacroLanguage", "Phone"}

\* C3: in every collection, a lookup by a value that equals no key field of
\* any record fails with ValueError and returns no record.
C3_MissRaisesValueError ==
  (IsLookup /\ ~EqualsSomeKey) => Raised("ValueError")

---------------------------------------------------------------------------
(* clean_amount *)

IsCleanAmount == call.op = "clean_amount"

\* The amount is a Decimal that is a number: neither infinity nor NaN.
FiniteDecimal(a) == a.t = "Decimal" /\ a.v.special = "finite"

\* How many digits a finite Decimal has right of the decimal point.
FractionLength(a) == IF a.v.exp < 0 THEN 0 - a.v.exp ELSE 0

BelowZero(a) ==
  /\ a.t = "Decimal"
  /\ a.v.sign = 1
  /\ a.v.special = "Infinity" \/ (a.v.special = "finite" /\ a.v.coef > 0)

\* Two finite Decimals are the same number: 20.2 and 20.20 are.
SameNumber(a, b) ==
  LET low == IF a.v.exp < b.v.exp THEN a.v.exp ELSE b.v.exp
      Scaled(d) == d.v.coef * 10 ^ (d.v.exp - low)
  IN /\ Scaled(a) = Scaled(b)
     /\ a.v.sign = b.v.sign \/ Scaled(a) = 0

\* C4: clean_amount fails with WrongAmountTypeError whenever the amount is
\* not a Decimal (an int, a float), for any currency.
C4_NonDecimalRejected ==
  (IsCleanAmount /\ call.amount.t # "Decimal") => Raised("WrongAmountTypeError")

\* The int 1 was passed with a two-digit currency and rejected for its type.
C4_Witness ==
  /\ IsCleanAmount
  /\ call.amount = IntV(1)
  /\ call.currency.digits = 2
  /\ Raised("WrongAmountTypeError")

\* C5 as stated: clean_amount fails with WrongAmountDigitsNumberError
\* whenever the Decimal amount has more fractional digits than the currency
\* allows, and never returns such an amount rounded or truncated.
C5_ExcessDigitsAlwaysDigitsError ==
  (IsCleanAmount /\ FiniteDecimal(call.amount)
     /\ FractionLength(call.amount) > call.currency.digits)
    => Raised("WrongAmountDigitsNumberError")

\* C5 amended: an amount with more fractional digits than the currency
\* allows is never returned, rounded or not: the call fails, and with
\* WrongAmountDigitsNumberError when the amount is not negative and is not a
\* zero given with allow_zero false (those fail with their own errors).
C5_ExcessDigitsRejected ==
  (IsCleanAmount /\ FiniteDecimal(call.amount)
     /\ FractionLength(call.amount) > call.currency.digits)
    => /\ result.kind = "raise"
       /\ (~BelowZero(call.amount) /\ (call.amount.v.coef # 0 \/ call.allow_zero))
            => Raised("WrongAmountDigitsNumberError")

\* Decimal("1.234") was passed with a two-digit currency and rejected for its
\* digits.
C5_Witness ==
  /\ IsCleanAmount
  /\ call.amount = Decimal(0, 1234, 0 - 3)
  /\ call.currency.digits = 2
  /\ Raised("WrongAmountDigitsNumberError")

\* C6: for a valid amount (a finite Decimal, not negative, not a zero given
\* with allow_zero false) with at most the currency's digits, clean_amount
\* returns a Decimal that is the same number and has exactly the currency's
\* digits right of the point.
C6_PaddedToCanonicalDigits ==
  (IsCleanAmount /\ FiniteDecimal(call.amount) /\ ~BelowZero(call.amount)
     /\ (call.amount.v.coef # 0 \/ call.allow_zero)
     /\ FractionLength(call.amount) <= call.currency.digits)
    => /\ result.kind = "return"
       /\ FiniteDecimal(result.val)
       /\ result.val.v.exp = 0 - call.currency.digits
       /\ SameNumber(result.val, call.amount)

\* Decimal("20.2") was passed with a two-digit currency and came back as
\* Decimal("20.20").
C6_Witness ==
  /\ IsCleanAmount
  /\ call.amount = Decimal(0, 202, 0 - 1)
  /\ call.currency.digits = 2
  /\ result = Return(Decimal(0, 2020, 0 - 2))

\* C7 as stated: clean_amount fails with NegativeAmountNotAllowedError
\* whenever the Decimal amount is negative.
C7_NegativeAlwaysNegativeError ==
  (IsCleanAmount /\ BelowZero(call.amount))
    => Raised("NegativeAmountNotAllowedError")

\* C7 amended: clean_amount fails with NegativeAmountNotAllowedError
\* whenever the Decimal amount is a negative number, that is negative and
\* finite, for any currency and whatever its digits.
C7_NegativeNumberRejected ==
  (IsCleanAmount /\ BelowZero(call.amount) /\ FiniteDecimal(call.amount))
    => Raised("NegativeAmountNotAllowedError")

\* Decimal("-20") was passed with a two-digit currency and rejected as
\* negative.
C7_Witness ==
  /\ IsCleanAmount
  /\ call.amount = Decimal(1, 20, 0)
  /\ call.currency.digits = 2
  /\ Raised("NegativeAmountNotAllowedError")

IsZeroDecimal(a) == FiniteDecimal(a) /\ a.v.coef = 0

\* C8 as stated: a zero Decimal fails with ZeroAmountNotAllowedError when
\* allow_zero is false and comes back as a value equal to zero when
\* allow_zero is true.
C8_ZeroByAllowZero ==
  (IsCleanAmount /\ IsZeroDecimal(call.amount))
    => IF call.allow_zero
         THEN result.kind = "return" /\ IsZeroDecimal(result.val)
         ELSE Raised("ZeroAmountNotAllowedError")

\* C8 amended: a zero Decimal fails with ZeroAmountNotAllowedError when
\* allow_zero is false; when allow_zero is true it comes back as a value
\* equal to zero provided it has no more fractional digits than the
\* currency allows (Decimal("0.000") with a two-digit currency fails with
\* WrongAmountDigitsNumberError).
C8_ZeroByAllowZeroAndDigits ==
  (IsCleanAmount /\ IsZeroDecimal(call.amount))
    => IF ~call.allow_zero THEN Raised("ZeroAmountNotAllowedError")
       ELSE IF FractionLength(call.amount) <= call.currency.digits
         THEN result.kind = "return" /\ IsZeroDecimal(result.val)
         ELSE Raised("WrongAmountDigitsNumberError")

\* Decimal("0") was passed with allow_zero false and rejected as zero.
C8_Witness ==
  /\ IsCleanAmount
  /\ call.amount = Decimal(0, 0, 0)
  /\ ~call.allow_zero
  /\ call.currency.digits = 2
  /\ Raised("ZeroAmountNotAllowedError")

\* C9: clean_amount fails with AmountSpecialValuesNotAllowedError whenever
\* the Decimal amount is infinity or NaN, for any currency.
C9_SpecialValuesRejected ==
  (IsCleanAmount /\ call.amount.t = "Decimal"
     /\ call.amount.v.special \in {"Infinity", "NaN"})
    => Raised("AmountSpecialValuesNotAllowedError")

\* Decimal("inf") was passed with a two-digit currency and rejected as a
\* special value.
C9_Witness ==
  /\ IsCleanAmount
  /\ call.amount = DecimalSpecial(0, "Infinity")
  /\ call.currency.digits = 2
  /\ Raised("AmountSpecialValuesNotAllowedError")

\* C10: clean_amount is idempotent: given back an amount it returned, with
\* the same currency and allow_zero, it succeeds and returns that amount,
\* coefficient and exponent unchanged.
C10_Idempotent ==
  (IsCleanAmount /\ call.again) => result = Return(call.amount)

\* Decimal("20.2") came back as Decimal("20.20"), which was passed again and
\* came back as it was.
C10_Witness ==
  /\ IsCleanAmount
  /\ call.again
  /\ call.given = Decimal(0, 202, 0 - 1)
  /\ call.amount = Decimal(0, 2020, 0 - 2)
  /\ result = Return(call.amount)

---------------------------------------------------------------------------
(* Phone lookups *)

IsPhone == call.op = "Phone"

\* The integer n that value writes as n itself, as str(n) or as "+" followed
\* by str(n); -1 when value is none of these.
WrittenCode(value) ==
  IF value.t = "int" THEN value.v
  ELSE IF value.t # "str" THEN 0 - 1
  ELSE LET s == IF value.v # <<>> /\ Head(value.v) = "+" THEN Tail(value.v)
                ELSE value.v
       IN IF /\ s # <<>>
             /\ \A k \in 1..Len(s) : IsDigit(s[k])
             /\ NatStr(DigitsValue(s, 0)) = s
            THEN DigitsValue(s, 0)
            ELSE 0 - 1

\* The declarations with calling code n.
WithCode(n) == {i \in 1..Len(PhoneDecls) : PhoneDecls[i].calling_code = n}

\* The declaration lists the prefix p.
Lists(decl, p) ==
  p.t = "int" /\ \E k \in 1..Len(decl.prefixes) : decl.prefixes[k] = p.v

\* C11: when the prefix passed with a calling code is in the prefix list of
\* exactly one record of that calling code, Phone returns that record,
\* wherever it is declared among the records of the code.
C11_PrefixOwnerReturned ==
  IsPhone
    => LET owners == {i \in WithCode(WrittenCode(call.value)) :
                        Lists(PhoneDecls[i], call.prefix)}
       IN Cardinality(owners) = 1
            => \E i \in owners : result = Return(PhoneDecls[i])

\* Phone(7, prefix=317) returned KZ, although RU, which has the same calling
\* code and no prefixes, is declared before it.
C11_Witness ==
  /\ IsPhone
  /\ call.value = IntV(7)
  /\ call.prefix = IntV(317)
  /\ result.kind = "return"
  /\ result.val.key = "KZ"
  /\ \E i, j \in WithCode(7) :
       /\ i < j
       /\ PhoneDecls[i].key = "RU" /\ PhoneDecls[i].prefixes = <<>>
       /\ PhoneDecls[j].key = "KZ" /\ Lists(PhoneDecls[j], call.prefix)

\* C12: when prefix is None, Phone(code) returns the first record in
\* declaration order that has the calling code and an empty prefix list; a
\* record with a non-empty prefix list is never returned (Phone(1) returns
\* UM, Phone(7) returns RU).
C12_NoPrefixFirstEmpty ==
  (IsPhone /\ call.prefix = None)
    => LET empties == {i \in WithCode(WrittenCode(call.value)) :
                         PhoneDecls[i].prefixes = <<>>}
       IN /\ empties # {} => result = Return(PhoneDecls[Min(empties)])
          /\ result.kind = "return" => result.val.prefixes = <<>>

\* A record of the calling code lists the prefix.
SomeRecordLists(n, p) == \E i \in WithCode(n) : Lists(PhoneDecls[i], p)

\* C13: Phone fails with ValueError when no record has the queried calling
\* code, and when records of the code exist but none has an empty prefix
\* list and none lists the prefix that was passed.
C13_NoRecordRaisesValueError ==
  IsPhone
    => LET n == WrittenCode(call.value)
       IN /\ (n >= 0 /\ WithCode(n) = {}) => Raised("ValueError")
          /\ (/\ WithCode(n) # {}
              /\ call.prefix # None
              /\ \A i \in WithCode(n) : PhoneDecls[i].prefixes # <<>>
              /\ ~SomeRecordLists(n, call.prefix))
               => Raised("ValueError")

\* Phone(44, prefix=787) failed with ValueError: the four records of
\* calling code 44 all declare prefixes and none lists 787.
C13_Witness ==
  /\ IsPhone
  /\ call.value = IntV(44)
  /\ call.prefix = IntV(787)
  /\ Cardinality(WithCode(44)) = 4
  /\ \A i \in WithCode(44) : PhoneDecls[i].prefixes # <<>>
  /\ ~SomeRecordLists(44, call.prefix)
  /\ Raised("ValueError")

\* str(n) for an integer n.
PyStr(n) == IF n < 0 THEN <<"-">> \o NatStr(0 - n) ELSE NatStr(n)

\* The three forms of a calling code: n, str(n) and "+" followed by str(n).
Forms(n) == {IntV(n), Str(PyStr(n)), Str(<<"+">> \o PyStr(n))}

\* Two outcomes are the same record, or are both the same kind of failure.
SameOutcome(a, b) ==
  IF a.kind = "return" THEN b = a ELSE b.kind = "raise" /\ b.exc = a.exc

\* C14: for every integer n and every prefix, Phone(n, prefix),
\* Phone(str(n), prefix) and Phone("+" + str(n), prefix) have the same
\* outcome: the same record, or all three fail.
C14_FormIndependent ==
  IsPhone
    => LET written == IF call.value.t = "int" THEN {call.value.v}
                      ELSE {WrittenCode(call.value)} \ {0 - 1}
       IN \A n \in written : \A form \in Forms(n) :
            SameOutcome(result, PhoneEnumType_call(form, call.prefix))

\* Phone("+7", prefix=317) returned KZ, as Phone(7, prefix=317) and
\* Phone("7", prefix=317) do.
C14_Witness ==
  /\ IsPhone
  /\ call.value = Str(<<"+", "7">>)
  /\ call.prefix = IntV(317)
  /\ result.kind = "return"
  /\ result.val.key = "KZ"
  /\ \A form \in Forms(7) : PhoneEnumType_call(form, call.prefix) = result

\* What is left of a str after one leading "+" is removed.
AfterPlus(s) == IF s # <<>> /\ Head(s) = "+" THEN Tail(s) ELSE s

\* C15: Phone fails with ValueError for every value that is neither an int
\* nor a str, and for every str whose remainder after removing one leading
\* "+" is not a valid integer literal ("+abc", "++1", "+1+2", ""); no such
\* str is resolved to a record.
C15_MalformedRaisesValueError ==
  (/\ IsPhone
   /\ \/ call.value.t \notin {"int", "str"}
      \/ call.value.t = "str" /\ PyInt(AfterPlus(call.value.v)).kind = "raise")
    => Raised("ValueError")

---------------------------------------------------------------------------
(* MacroLanguage lookups *)

IsMacroLanguage == call.op = "MacroLanguage"

\* The record has the queried macrolanguage id, letter case aside, and the
\* queried status when one is asked for.
Fits(r, value, i_status) ==
  /\ lower(r.m_id.v) = lower(value.v)
  /\ i_status # None => r.i_status = i_status

\* The declared records that fit the call, in declaration order.
FittingRecords ==
  LET FitsCall(r) == Fits(r, call.value, call.i_status)
  IN SelectSeq(MacroLanguageDecls, FitsCall)

\* C16: MacroLanguage(value, i_status=s), with s None, "A" or "R", returns
\* exactly the records whose macrolanguage id equals value case-insensitively
\* and, when s is "A" or "R", whose status is s: every such record is in the
\* list, no record with another id or another status is, and the list is in
\* declaration order (its k-th entry is the member of the k-th such
\* declaration).
C16_ExactlyTheMatchingRecords ==
  (/\ IsMacroLanguage
   /\ call.value.t = "str"
   /\ call.i_status \in {None, Str(<<"A">>), Str(<<"R">>)})
    => LET FitsAt(j) == Fits(MacroLanguageDecls[j], call.value, call.i_status)
           fitting == SelectSeq([j \in 1..Len(MacroLanguageDecls) |-> j], FitsAt)
       IN fitting # <<>>
            => /\ result.kind = "return"
               /\ \A k \in 1..Len(result.val) :
                    Fits(result.val[k], call.value, call.i_status)
               /\ Len(result.val) = Len(fitting)
               /\ \A k \in 1..Len(fitting) :
                    result.val[k] = MemberDeclared(MacroLanguageDecls, fitting[k])

\* MacroLanguage("ARA", i_status="R") returned records of id "ara", all
\* retired, although "ara" has active records too.
C16_Witness ==
  /\ IsMacroLanguage
  /\ call.value = Str(<<"A", "R", "A">>)
  /\ call.i_status = Str(<<"R">>)
  /\ result.kind = "return"
  /\ Len(result.val) >= 1
  /\ \A k \in 1..Len(result.val) :
       result.val[k].m_id = Str(<<"a", "r", "a">>) /\ result.val[k].i_status = Str(<<"R">>)
  /\ \E j \in 1..Len(MacroLanguageDecls) :
       /\ MacroLanguageDecls[j].m_id = Str(<<"a", "r", "a">>)
       /\ MacroLanguageDecls[j].i_status = Str(<<"A">>)

\* C17: MacroLanguage never returns an empty list: when no record has the
\* queried id, or the status filter removes every record that has it, the
\* lookup fails with ValueError.
C17_NoMatchRaisesValueError ==
  IsMacroLanguage
    => /\ result # Return(<<>>)
       /\ (/\ call.value.t = "str"
           /\ call.i_status \in {None, Str(<<"A">>), Str(<<"R">>)}
           /\ FittingRecords = <<>>)
            => Raised("ValueError")

\* MacroLanguage("aka", i_status="R") failed with ValueError: the records
\* of id "aka" are all active.
C17_Witness ==
  /\ IsMacroLanguage
  /\ call.value = Str(<<"a", "k", "a">>)
  /\ call.i_status = Str(<<"R">>)
  /\ \E j \in 1..Len(MacroLanguageDecls) :
       MacroLanguageDecls[j].m_id = call.value
  /\ \A j \in 1..Len(MacroLanguageDecls) :
       MacroLanguageDecls[j].m_id = call.value
         => MacroLanguageDecls[j].i_status = Str(<<"A">>)
  /\ Raised("ValueError")

\* C18: a status filter other than None, "A" and "R" makes MacroLanguage
\* fail with the invalid-option ValueError before any matching, whatever the
\* value is: an existing id, an id no record has, or a value that is not a
\* str; the not-found error is never the one raised.
C18_InvalidStatusRejectedFirst ==
  (IsMacroLanguage /\ call.i_status \notin {None, Str(<<"A">>), Str(<<"R">>)})
    => result = Raise("ValueError", <<"is not a valid i_status for", "MacroLanguage">>)

\* MacroLanguage(1, i_status="X") failed with the invalid-option error,
\* although 1 is not a str.
C18_Witness ==
  /\ IsMacroLanguage
  /\ call.value = IntV(1)
  /\ call.i_status = Str(<<"X">>)
  /\ result = Raise("ValueError", <<"is not a valid i_status for", "MacroLanguage">>)

---------------------------------------------------------------------------
(* Collection[name] *)

IsGetItem == call.op = "getitem"

\* The declarations of the collection that have the name that was passed.
Declared ==
  {i \in 1..Len(DeclsOf(call.collection)) :
     NameStr(DeclsOf(call.collection)[i].key) = call.name}

\* C19: in every collection, Collection[name] with a name that is not
\* declared fails with ValueError, never with a missing-key error, and with
\* a declared name returns that member.
C19_GetItemByName ==
  IsGetItem
    => IF Declared = {} THEN Raised("ValueError")
       ELSE \E i \in Declared :
              result = Return(MemberDeclared(DeclsOf(call.collection), i))

\* Phone["non_existent"] failed with ValueError: Phone declares no such
\* name.
C19_Witness ==
  /\ IsGetItem
  /\ call.collection = "Phone"
  /\ call.name = NameStr("non_existent")
  /\ Declared = {}
  /\ Raised("ValueError")

---------------------------------------------------------------------------
(* Language lookups *)

IsLanguage == call.op = "Language"

\* C20 as stated: for every Language record r, Language(r.alpha_3) returns
\* r itself and, when r.alpha_2 is not None, Language(r.alpha_2) returns r
\* too, also for a language declared as two records with one alpha_2.
C20_LanguageRoundTrip ==
  IsLanguage
    => \A i \in 1..Len(LanguageDecls) :
         (\/ PyEq(call.value, LanguageDecls[i].alpha_3)
          \/ (LanguageDecls[i].alpha_2 # None
                /\ PyEq(call.value, LanguageDecls[i].alpha_2)))
           => result = Return(LanguageDecls[i])

\* The first declaration with the alpha_2 of the i-th one.
FirstWithAlpha2(i) ==
  Min({j \in 1..i : PyEq(LanguageDecls[j].alpha_2, LanguageDecls[i].alpha_2)})

\* C20: for every Language record r, Language(r.alpha_3) returns r itself;
\* when r.alpha_2 is not None, Language(r.alpha_2) returns the first
\* declared record with that alpha_2, which is r unless an earlier record
\* declares the same alpha_2.
C20_LanguageFirstDeclared ==
  IsLanguage
    => \A i \in 1..Len(LanguageDecls) :
         /\ PyEq(call.value, LanguageDecls[i].alpha_3)
              => result = Return(LanguageDecls[i])
         /\ (LanguageDecls[i].alpha_2 # None
               /\ PyEq(call.value, LanguageDecls[i].alpha_2))
              => result = Return(LanguageDecls[FirstWithAlpha2(i)])

\* Language("sq") returned ALB, the first of the two records that declare
\* alpha_2 "sq"; SQI is the later one.
C20_Witness ==
  /\ IsLanguage
  /\ call.value = Str(<<"s", "q">>)
  /\ result.kind = "return"
  /\ result.val.key = "ALB"
  /\ \E i, j \in 1..Len(LanguageDecls) :
       /\ i < j
       /\ LanguageDecls[i].key = "ALB" /\ LanguageDecls[i].alpha_2 = call.value
       /\ LanguageDecls[j].key = "SQI" /\ LanguageDecls[j].alpha_2 = call.value

---------------------------------------------------------------------------
(* is_prefix_supported *)

IsPrefixSupportedCall == call.op = "is_prefix_supported"

\* C21: is_prefix_supported(record, prefix) is true exactly when the
\* record's prefix list is empty, or prefix is None, or prefix is an element
\* of the list; the method of the Phone member and the one of its unit give
\* this same answer.
C21_PrefixSupportedExactly ==
  IsPrefixSupportedCall
    => result = Return(BoolV(\/ call.phone.prefixes = <<>>
                             \/ call.prefix = None
                             \/ Lists(call.phone, call.prefix)))

\* The unit of GB, which has prefixes, was asked about no prefix and
\* answered True.
C21_Witness ==
  /\ IsPrefixSupportedCall
  /\ call.on = "PhoneUnit"
  /\ call.phone.key = "GB"
  /\ call.phone.prefixes # <<>>
  /\ call.prefix = None
  /\ result = Return(BoolV(TRUE))

---------------------------------------------------------------------------
(* Currency.zero_digits, two_digits, three_digits *)

\* An accessor has just been read.
IsRead == call.op = "digits" /\ call.edits = 0

\* The declared currencies with the given digits, in declaration order.
DeclaredWithDigits(digits) ==
  LET Test(d) == d.digits = digits
  IN SelectSeq(CurrencyDecls, Test)

\* How many times the list holds the record.
Occurrences(list, r) == Cardinality({i \in 1..Len(list) : list[i] = r})

\* C22: zero_digits, two_digits and three_digits partition the Currency
\* collection: each list holds exactly the records whose digits are 0, 2 and
\* 3 respectively, once each and in declaration order, and every record is
\* in exactly one of the three lists.
C22_DigitsPartition ==
  /\ IsRead => result = Return(DeclaredWithDigits(call.digits))
  /\ \A i \in 1..Len(CurrencyDecls) : CurrencyDecls[i].digits \in {0, 2, 3}
  /\ DOMAIN cached = {0, 2, 3}
       => \A i \in 1..Len(CurrencyDecls) :
            /\ Occurrences(cached[CurrencyDecls[i].digits], CurrencyDecls[i]) = 1
            /\ \A d \in {0, 2, 3} \ {CurrencyDecls[i].digits} :
                 Occurrences(cached[d], CurrencyDecls[i]) = 0

\* All three accessors have been read, three_digits last: it returned its
\* five records, and USD, with the default two digits, is in two_digits.
C22_Witness ==
  /\ IsRead
  /\ call.accessor = "three_digits"
  /\ DOMAIN cached = {0, 2, 3}
  /\ result.kind = "return"
  /\ Len(result.val) = 5
  /\ \E i \in 1..Len(cached[2]) :
       cached[2][i].key = "USD" /\ cached[2][i].digits = DefaultDigits

\* C27: whatever callers have done to the lists returned to them (append,
\* remove, clear), each accessor still returns exactly the currencies whose
\* digits are 0, 2 or 3 respectively, and the list the memoised helper
\* serves to later callers is not the one a caller has modified.
C27_ReadsUnaffectedByCallers ==
  /\ IsRead => result = Return(DeclaredWithDigits(call.digits))
  /\ \A d \in DOMAIN cached : cached[d] = DeclaredWithDigits(d)

---------------------------------------------------------------------------
(* Country, Currency and Language lookups *)

\* The key fields the lookup of a collection compares the value with.
KeyFields(op) ==
  CASE op = "Country" -> {"alpha_2", "alpha_3", "numeric"}
    [] op = "Currency" -> {"alpha_3", "numeric"}
    [] op = "Language" -> {"alpha_3", "alpha_2"}

\* The str codes the records of a collection declare in their key fields.
DeclaredCodes(op) ==
  {DeclsOf(op)[i][f] : i \in 1..Len(DeclsOf(op)), f \in KeyFields(op)} \ {None}

\* A str with the blanks around it removed and its letters in lower case.
Folded(s) == lower(StripRight(StripLeft(s)))

\* C23: Country, Currency and Language match letter codes exactly: a str
\* that equals no key field, and differs from one only in letter case or by
\* blanks around it ("us", " US", "usd", "EN"), fails with ValueError.
C23_CaseAndBlanksNotIgnored ==
  (/\ call.op \in {"Country", "Currency", "Language"}
   /\ call.value.t = "str"
   /\ call.value \notin DeclaredCodes(call.op))
    => LET folded == Folded(call.value.v)
       IN (\E code \in DeclaredCodes(call.op) : Folded(code.v) = folded)
            => Raised("ValueError")

\* Country("us") failed with ValueError, although "US" is a declared
\* alpha_2 code.
C23_Witness ==
  /\ call.op = "Country"
  /\ call.value = Str(<<"u", "s">>)
  /\ Str(<<"U", "S">>) \in DeclaredCodes("Country")
  /\ Raised("ValueError")

\* The declarations with a declared key field equal to the value that was
\* passed (for Country also the integer form of the numeric code); a record
\* whose alpha_2 is None declares no alpha_2.
KeyHits ==
  {i \in 1..Len(DeclsOf(call.op)) :
     \/ \E f \in KeyFields(call.op) :
          /\ DeclsOf(call.op)[i][f] # None
          /\ PyEq(call.value, DeclsOf(call.op)[i][f])
     \/ call.op = "Country" /\ IsIntegerForm(call.value, DeclsOf(call.op)[i].numeric)}

\* C24: Country, Currency and Language return the earliest record in
\* declaration order among the records that have a key field equal to the
\* value; when two records share a key value the first declared is returned.
C24_EarliestRecordReturned ==
  call.op \in {"Country", "Currency", "Language"}
    => LET hits == KeyHits
       IN hits # {} => result = Return(DeclsOf(call.op)[Min(hits)])

\* Language("cs") returned CZE, the first of the two records that declare
\* alpha_2 "cs".
C24_Witness ==
  /\ call.op = "Language"
  /\ call.value = Str(<<"c", "s">>)
  /\ Cardinality(KeyHits) = 2
  /\ result.kind = "return"
  /\ result.val.key = "CZE"
  /\ result.val = LanguageDecls[Min(KeyHits)]

\* C25: when the prefix passed is in no prefix list of the records of the
\* calling code, Phone returns the first record in declaration order that
\* has the calling code and an empty prefix list, if there is one.
C25_UnlistedPrefixFirstEmpty ==
  (IsPhone /\ call.prefix # None)
    => LET n == WrittenCode(call.value)
           empties == {i \in WithCode(n) : PhoneDecls[i].prefixes = <<>>}
       IN (~SomeRecordLists(n, call.prefix) /\ empties # {})
            => result = Return(PhoneDecls[Min(empties)])

\* Phone("+1", prefix=1624) returned UM: no record of calling code 1 lists
\* 1624, and UM is the first of them with an empty prefix list, declared
\* after records of the code that have prefixes.
C25_Witness ==
  /\ IsPhone
  /\ call.value = Str(<<"+", "1">>)
  /\ call.prefix = IntV(1624)
  /\ ~SomeRecordLists(1, call.prefix)
  /\ result.kind = "return"
  /\ result.val.key = "UM"
  /\ result.val.prefixes = <<>>
  /\ \E i \in WithCode(1) : PhoneDecls[i].prefixes # <<>> /\ PhoneDecls[i].key # "UM"
                           /\ \E j \in WithCode(1) : i < j /\ PhoneDecls[j].key = "UM"

\* C26: the list that MacroLanguage(value) returns holds one distinct record
\* per individual language declared under the id: no two entries are the
\* same record, and for every declared individual-language name exactly one
\* entry has that name as its i_id.
C26_OneRecordPerIndividualLanguage ==
  (/\ IsMacroLanguage
   /\ call.value.t = "str"
   /\ call.i_status \in {None, Str(<<"A">>), Str(<<"R">>)}
   /\ result.kind = "return")
    => LET list == result.val
       IN /\ \A k, l \in 1..Len(list) : k # l => list[k] # list[l]
          /\ \A j \in 1..Len(MacroLanguageDecls) :
               Fits(MacroLanguageDecls[j], call.value, call.i_status)
                 => Cardinality({k \in 1..Len(list) :
                                   list[k].key = MacroLanguageDecls[j].key}) = 1

\* C29: every record that Phone(value, prefix) returns has the normalized
\* value as its calling code (the integer n when value is n, str(n) or "+"
\* followed by str(n)), and when a prefix is passed and the record has
\* prefixes, the prefix is one of them.
C29_ReturnedRecordMatchesQuery ==
  (IsPhone /\ result.kind = "return")
    => LET normalized_value == normalize_value(call.value)
           n == WrittenCode(call.value)
       IN /\ normalized_value.kind = "return"
          /\ normalized_value.val = IntV(result.val.calling_code)
          /\ n >= 0 => result.val.calling_code = n
          /\ (call.prefix # None /\ result.val.prefixes # <<>>)
               => Lists(result.val, call.prefix)

\* Phone("1", prefix=939) returned PR, a record of calling code 1 whose
\* prefix list holds 939, while other records of the code have prefixes
\* that do not hold it.
C29_Witness ==
  /\ IsPhone
  /\ call.value = Str(<<"1">>)
  /\ call.prefix = IntV(939)
  /\ result.kind = "return"
  /\ result.val.key = "PR"
  /\ result.val.calling_code = 1
  /\ Lists(result.val, call.prefix)
  /\ \E i \in WithCode(1) :
       PhoneDecls[i].prefixes # <<>> /\ ~Lists(PhoneDecls[i], call.prefix)

\* C30: every lookup in every collection, by a value of any type or by a
\* member name, either returns a record (MacroLanguage: a list that is not
\* empty) or fails with ValueError; no other kind of error escapes.
C30_ReturnsOrValueError ==
  call.op \in Collections \cup {"getitem"}
    => \/ Raised("ValueError")
       \/ /\ result.kind = "return"
          /\ call.op = "MacroLanguage" => result.val # <<>>

\* The records of each collection as its class body declares them, in
\* declaration order.
DeclaredRecords ==
  [collection \in Collections |->
     [i \in 1..Len(DeclsOf(collection)) |->
        MemberDeclared(DeclsOf(collection), i)]]

\* C28: no lookup changes a collection: in every state reached by lookups by
\* value, lookups by member name and is_prefix_supported calls, successful
\* or failing, every collection has the records, field values, prefix
\* lists and order it was imported with, and a failing call leaves an error
\* and no value.
C28_LookupsChangeNoCollection ==
  /\ \A collection \in Collections :
       MembersNow(collection) = DeclaredRecords[collection]
  /\ result.kind = "raise" => DOMAIN result = {"kind", "exc", "msg"}

\* Phone("44", prefix=0) failed after the loop had passed the four records
\* of calling code 44: the Phone records are those declared, prefix lists
\* included, and the outcome is the error alone.
C28_Witness ==
  /\ IsPhone
  /\ call.value = Str(<<"4", "4">>)
  /\ call.prefix = IntV(0)
  /\ Raised("ValueError")
  /\ DOMAIN result = {"kind", "exc", "msg"}
  /\ writes = <<>>
  /\ \A i \in WithCode(44) :
       /\ PhoneMembers[i] = PhoneDecls[i]
       /\ PhoneMembers[i].prefixes # <<>>

=============================================================================
